---- MODULE Spec2Model ----
(***************************************************************************)
(* Model of the finance-assistant backend:                                 *)
(*   - the Session Store, in-memory (services/chat/memory.py) and          *)
(*     PostgreSQL (services/chat/postgres.py) backends, driven in          *)
(*     lock-step by the same contract calls            (SpecStore)         *)
(*   - the Metadata Cache of AgentBricksService        (SpecCache)         *)
(*   - the Invocation Bridge, producer thread / async consumer             *)
(*     (handlers/databricks_endpoint.py, routers/agent.py) (SpecBridge)    *)
(***************************************************************************)
EXTENDS Integers, Sequences, FiniteSets, TLC

VARIABLES
  \* ---- Session Store ----
  mem,         \* MemoryUserScopedChatStorage: owner -> sequence of chats (dict order)
  pgChats,     \* PostgreSQL table chats: set of rows
  pgMessages,  \* PostgreSQL table messages: sequence of rows (heap order)
  nextId,      \* next fresh uuid (chat ids are never reused)
  now,         \* the clock read by datetime.now() / time.time()
  calls,       \* create, appendMessage and renameTitle calls that succeeded so far
  last,        \* the last contract call: operation, arguments, both results
  txs,         \* PostgreSQL create transactions in flight: transaction -> record
  \* ---- Metadata Cache ----
  cache,       \* AgentBricksService._agent_cache: key -> entry
  callers,     \* request-path callers of getOrFetch: caller -> record
  refreshers,  \* background refresh threads that are alive
  nextThread,  \* next thread identifier
  fetches,     \* key -> number of _fetch_agent_details calls started
  clock,       \* the wall clock read by time.time(), in seconds
  lock,        \* AgentBricksService._cache_lock: who holds it, and for what
  kaTiles,     \* AgentBricksService._ka_tiles_cache
  fetchers,    \* _fetch_agent_details coroutines in flight: flow -> record
  \* ---- Invocation Bridge ----
  req,         \* the request of the current invocation
  resp,        \* what invoke_endpoint returned: "none", "error" or "stream"
  chatId,      \* chat_id resolved by invoke_endpoint
  taken,       \* the items the producer thread has obtained from the inference iterator
  ended,       \* how the inference iterator ended: "", "exhausted" or "raised"
  ppc,         \* producer thread position
  ready,       \* event loop ready queue: call_soon_threadsafe callbacks (FIFO)
  queue,       \* asyncio.Queue of (msg_type, data)
  cpc,         \* consumer (stream_and_store + predict_stream) position
  held,        \* the chunk stream_and_store has forwarded and not yet parsed
  frames,      \* frames yielded to the HTTP layer, in order
  collected,   \* final_text, function_calls, trace_id, databricks_output
  invokes,     \* invocations so far
  \* ---- Storage singleton (services/chat/__init__.py) ----
  storage,     \* _storage: 0 for None, else the instance it refers to
  initialized, \* _initialized
  instances,   \* the storage objects constructed so far: [kind, sessions]
  database,    \* the sessions in the PostgreSQL database
  handles,     \* the instances get_storage / init_storage returned since the reset
  ipc          \* position of the init_storage coroutine

storeVars  == <<mem, pgChats, pgMessages, nextId, now, calls, last, txs>>
cacheVars  == <<cache, callers, refreshers, nextThread, fetches, clock, lock, kaTiles, fetchers>>
bridgeVars == <<req, resp, chatId, taken, ended, ppc, ready, queue, cpc, held, frames, collected,
               invokes>>
singletonVars == <<storage, initialized, instances, database, handles, ipc>>
vars       == <<storeVars, cacheVars, bridgeVars, singletonVars>>

(***************************************************************************)
(* Bounds of the model                                                     *)
(***************************************************************************)
\* the configured per-owner bound N (max_chats_per_user; the code's default is 10)
max_chats == 2
\* create, appendMessage and renameTitle calls that succeed in one run
MaxCalls == 4
\* last value of the clock
MaxTime == 1

\* chat ids generated in one run: one create beyond the bound
NumIds == max_chats + 1

Owners == {"alice", "bob"}

(***************************************************************************)
(* Strings are sequences of one-character strings                          *)
(***************************************************************************)
\* the slice length of the auto-title, msg.content[:50]
TITLE_LEN == 50

Ellipsis == <<".", ".", ".">>

NewChat == <<"N", "e", "w", " ", "C", "h", "a", "t">>

\* a content of n characters whose first and last characters differ
Text(n) == [i \in 1..n |-> IF i % 2 = 1 THEN "a" ELSE "b"]

\* Python slice s[:n]
Slice(s, n) == SubSeq(s, 1, IF Len(s) < n THEN Len(s) ELSE n)

Contents == {Text(TITLE_LEN), Text(TITLE_LEN + 1)}

Roles == {"user", "assistant"}

\* the MessageModel objects the callers pass to add_message
Msgs == [role : {"user"}, content : Contents]
          \cup [role : {"assistant"}, content : {Text(TITLE_LEN)}]

CreateTitles == {NewChat}
RenameTitles == {<<"R">>}

(***************************************************************************)
(* Sequence helpers                                                        *)
(***************************************************************************)
RemoveAt(s, i) == [j \in 1..(Len(s) - 1) |-> IF j < i THEN s[j] ELSE s[j + 1]]

IndexOf(s, id) == IF \E i \in 1..Len(s) : s[i].id = id
                  THEN CHOOSE i \in 1..Len(s) : s[i].id = id
                  ELSE 0

\* all orderings of the set S in which key (a function on S) is non-decreasing (asc) or
\* non-increasing: what ORDER BY key returns, ties in any order
Orderings(S, key, asc) ==
  {f \in [1..Cardinality(S) -> S] :
     /\ \A i, j \in 1..Cardinality(S) : i # j => f[i] # f[j]
     /\ \A i, j \in 1..Cardinality(S) :
          i < j => IF asc THEN key[f[i]] <= key[f[j]] ELSE key[f[i]] >= key[f[j]]}

(***************************************************************************)
(* Session Store, in-memory backend (services/chat/memory.py)              *)
(* A chat is [id, user_email, title, updated_at, messages]; a message is   *)
(* [chat_id, role, content, timestamp].  One owner's MemoryChatStorage is  *)
(* the sequence of its chats in dict insertion order.                      *)
(***************************************************************************)
Chat(id, owner, title, t, msgs) ==
  [id |-> id, user_email |-> owner, title |-> title, updated_at |-> t, messages |-> msgs]

GetStorageShared(store, owner) == store[CHOOSE o \in Owners : TRUE]
\* MemoryUserScopedChatStorage.get_storage_for_user: the owner's own storage
GetStorageForUser(store, owner) == store[owner]

\* sorted(self.chats.values(), key=updated_at, reverse=True): a stable sort,
\* chats of equal updated_at keep their dict order
RECURSIVE MemSortDesc(_)
MemSortDesc(chats) ==
  IF Len(chats) = 0 THEN <<>>
  ELSE LET best == CHOOSE i \in 1..Len(chats) :
                     /\ \A j \in 1..Len(chats) : chats[j].updated_at <= chats[i].updated_at
                     /\ \A j \in 1..(i - 1) : chats[j].updated_at < chats[i].updated_at
       IN  <<chats[best]>> \o MemSortDesc(RemoveAt(chats, best))

MemGetAll(chats) == MemSortDesc(chats)

\* the keys of self.chats
MemIds(chats) == {chats[i].id : i \in 1..Len(chats)}

\* self.chats.get(chat_id): the result is a set, empty for None
MemGet(chats, id) == {chats[i] : i \in {j \in 1..Len(chats) : chats[j].id = id}}

MemNewest(chats) ==
  CHOOSE i \in 1..Len(chats) : \A j \in 1..Len(chats) : chats[i].updated_at >= chats[j].updated_at
\* min(self.chats.values(), key=updated_at): the first chat of minimal updated_at
MemOldest(chats) ==
  CHOOSE i \in 1..Len(chats) :
    /\ \A j \in 1..Len(chats) : chats[i].updated_at <= chats[j].updated_at
    /\ \A j \in 1..(i - 1) : chats[j].updated_at > chats[i].updated_at

MemAtLimitOff(chats) == Len(chats) > max_chats
\* if len(self.chats) >= self.max_chats
MemAtLimit(chats) == Len(chats) >= max_chats

MemCreate(chats, owner, id, title, t) ==
  LET kept == IF MemAtLimit(chats) THEN RemoveAt(chats, MemOldest(chats)) ELSE chats
  IN  Append(kept, Chat(id, owner, title, t, <<>>))

\* msg.content[:50] + ('...' if len(msg.content) > 50 else '')
MemAutoTitle(content) ==
  Slice(content, TITLE_LEN) \o (IF Len(content) > TITLE_LEN THEN Ellipsis ELSE <<>>)

MemIsFirstUserAlways(msgs, msg) == msg.role = "user"
\* if len(chat.messages) == 1 and msg.role == 'user', after the append
MemIsFirstUser(msgs, msg) == Len(msgs) = 1 /\ msg.role = "user"

MemAddMessageUpsert(chats, id, msg, t) ==
  LET m == [chat_id |-> id, role |-> msg.role, content |-> msg.content,
            timestamp |-> msg.timestamp]
      i == IndexOf(chats, id)
  IN  IF i = 0 THEN [chats |-> Append(chats, Chat(id, "", NewChat, t, <<m>>)), res |-> TRUE]
      ELSE [chats |-> [chats EXCEPT ![i] = Chat(id, @.user_email, @.title, t, Append(@.messages, m))],
            res |-> TRUE]

MemAddMessageKeepTitle(chats, id, msg, t) ==
  LET i == IndexOf(chats, id) IN
  IF i = 0 THEN [chats |-> chats, res |-> FALSE]
  ELSE LET m     == [chat_id |-> id, role |-> msg.role, content |-> msg.content,
                     timestamp |-> msg.timestamp]
           msgs  == Append(chats[i].messages, m)
           title == IF MemIsFirstUser(msgs, msg) /\ chats[i].title = NewChat
                    THEN MemAutoTitle(msg.content)
                    ELSE chats[i].title
       IN  [chats |-> [chats EXCEPT ![i] = Chat(id, @.user_email, title, t, msgs)],
            res |-> TRUE]

\* add_message on the owner's storage: [chats |-> the chats afterwards, res |-> bool]
MemAddMessage(chats, id, msg, t) ==
  LET i == IndexOf(chats, id) IN
  IF i = 0 THEN [chats |-> chats, res |-> FALSE]
  ELSE LET m     == [chat_id |-> id, role |-> msg.role, content |-> msg.content,
                     timestamp |-> msg.timestamp]
           msgs  == Append(chats[i].messages, m)
           title == IF MemIsFirstUser(msgs, msg) THEN MemAutoTitle(msg.content)
                    ELSE chats[i].title
       IN  [chats |-> [chats EXCEPT ![i] = Chat(id, @.user_email, title, t, msgs)],
            res |-> TRUE]

MemUpdateTitleUnbumped(chats, id, title, t) ==
  LET i == IndexOf(chats, id) IN
  IF i = 0 THEN [chats |-> chats, res |-> FALSE]
  ELSE [chats |-> [chats EXCEPT ![i].title = title], res |-> TRUE]

MemUpdateTitle(chats, id, title, t) ==
  LET i == IndexOf(chats, id) IN
  IF i = 0 THEN [chats |-> chats, res |-> FALSE]
  ELSE [chats |-> [chats EXCEPT ![i].title = title, ![i].updated_at = t], res |-> TRUE]

MemDelete(chats, id) ==
  LET i == IndexOf(chats, id) IN
  IF i = 0 THEN [chats |-> chats, res |-> FALSE]
  ELSE [chats |-> RemoveAt(chats, i), res |-> TRUE]

MemClearAll(chats) == [chats |-> <<>>, res |-> Len(chats)]

(***************************************************************************)
(* Session Store, PostgreSQL backend (services/chat/postgres.py)           *)
(* Table chats holds rows [id, user_email, title, updated_at]; table       *)
(* messages holds rows [chat_id, role, content, timestamp].  Each          *)
(* operation is one session_scope() transaction, committed at its end.     *)
(***************************************************************************)
Row(id, owner, title, t) ==
  [id |-> id, user_email |-> owner, title |-> title, updated_at |-> t]

\* WHERE ChatModel.user_email == self.user_email
PgOwned(chats, owner) == {r \in chats : r.user_email = owner}

PgSelectChatById(chats, id, owner) == {r \in chats : r.id = id}
\* WHERE ChatModel.id == chat_id AND ChatModel.user_email == self.user_email
PgSelectChat(chats, id, owner) == {r \in chats : r.id = id /\ r.user_email = owner}

\* the rows of messages that belong to chat id, in heap order
PgMessagesOf(messages, id) == SelectSeq(messages, LAMBDA m : m.chat_id = id)

\* relationship(order_by=MessageModel.timestamp): every order the database
\* may return the chat's messages in; rows of equal timestamp come in any order
PgMessageOrders(messages, id) ==
  LET own == PgMessagesOf(messages, id)
      ord == Orderings(1..Len(own), [i \in 1..Len(own) |-> own[i].timestamp], TRUE)
  IN  {[k \in 1..Len(own) |-> own[f[k]]] : f \in ord}

\* a ChatModel loaded with selectinload(ChatModel.messages)
PgLoad(row, msgs) == Chat(row.id, row.user_email, row.title, row.updated_at, msgs)

\* get: SELECT ... WHERE id AND user_email, scalar_one_or_none
PgGet(chats, messages, owner, id) ==
  {PgLoad(r, ms) : r \in PgSelectChat(chats, id, owner), ms \in PgMessageOrders(messages, id)}

\* get_all: ORDER BY updated_at DESC; chats of equal updated_at in any order.
\* The result is the set of row orders the database may return.
PgGetAll(chats, owner) ==
  LET own == PgOwned(chats, owner)
  IN  Orderings(own, [r \in own |-> r.updated_at], FALSE)

\* ORDER BY updated_at ASC LIMIT 1: the rows the database may pick as oldest
PgOldest(chats, owner) ==
  {r \in PgOwned(chats, owner) : \A q \in PgOwned(chats, owner) : r.updated_at <= q.updated_at}

\* current_count >= self.max_chats, current_count counted under the owner
PgAtLimit(chats, owner) == Cardinality(PgOwned(chats, owner)) >= max_chats

\* the rows create may choose to evict: none below the limit
PgVictims(chats, owner) == IF PgAtLimit(chats, owner) THEN PgOldest(chats, owner) ELSE {}

\* create with the eviction victim chosen (victims is {} or one row):
\* session.delete(oldest) cascades to its messages, then the insert
PgCreate(chats, messages, victims, owner, id, title, t) ==
  LET gone == {v.id : v \in victims}
  IN  [chats    |-> (chats \ victims) \cup {Row(id, owner, title, t)},
       messages |-> SelectSeq(messages, LAMBDA m : m.chat_id \notin gone)]

\* the re-fetch that create returns: SELECT ... WHERE ChatModel.id == chat_id
PgRefetch(chats, messages, id) ==
  {PgLoad(r, ms) : r \in {q \in chats : q.id = id}, ms \in PgMessageOrders(messages, id)}

\* msg.content[:50] + ('...' if len(msg.content) > 50 else '')
PgAutoTitle(content) ==
  Slice(content, TITLE_LEN) \o (IF Len(content) > TITLE_LEN THEN Ellipsis ELSE <<>>)

PgMsgCountFlushed(messages, id) == Len(PgMessagesOf(messages, id)) + 1
\* SELECT count() FROM messages WHERE chat_id == chat_id, run with
\* autoflush=False: the message added to the session is not yet counted
PgMsgCount(messages, id) == Len(PgMessagesOf(messages, id))

PgAddMessage(chats, messages, owner, id, msg, t) ==
  LET found == PgSelectChat(chats, id, owner) IN
  IF found = {} THEN [chats |-> chats, messages |-> messages, res |-> FALSE]
  ELSE LET chat  == CHOOSE r \in found : TRUE
           title == IF PgMsgCount(messages, id) = 0 /\ msg.role = "user"
                    THEN PgAutoTitle(msg.content) ELSE chat.title
           m     == [chat_id |-> id, role |-> msg.role, content |-> msg.content,
                     timestamp |-> msg.timestamp]
       IN  [chats    |-> (chats \ {chat}) \cup {Row(id, chat.user_email, title, t)},
            messages |-> Append(messages, m),
            res      |-> TRUE]

PgUpdateTitle(chats, owner, id, title, t) ==
  LET found == PgSelectChat(chats, id, owner) IN
  IF found = {} THEN [chats |-> chats, res |-> FALSE]
  ELSE LET chat == CHOOSE r \in found : TRUE
       IN  [chats |-> (chats \ {chat}) \cup {Row(id, chat.user_email, title, t)},
            res   |-> TRUE]

PgDeleteNoCascade(chats, messages, owner, id) ==
  LET found == PgSelectChat(chats, id, owner)
  IN  [chats |-> chats \ found, messages |-> messages, res |-> Cardinality(found) > 0]

\* DELETE FROM chats WHERE id AND user_email; messages go by ON DELETE CASCADE
PgDelete(chats, messages, owner, id) ==
  LET found == PgSelectChat(chats, id, owner)
      gone  == {r.id : r \in found}
  IN  [chats    |-> chats \ found,
       messages |-> SelectSeq(messages, LAMBDA m : m.chat_id \notin gone),
       res      |-> Cardinality(found) > 0]

\* DELETE FROM chats WHERE user_email; returns the rowcount
PgClearAll(chats, messages, owner) ==
  LET found == PgOwned(chats, owner)
      gone  == {r.id : r \in found}
  IN  [chats    |-> chats \ found,
       messages |-> SelectSeq(messages, LAMBDA m : m.chat_id \notin gone),
       res      |-> Cardinality(found)]

\* The WHERE clause of every statement an operation issues, as the set of
\* columns it filters on.
PgWhere(op) ==
  CASE op = "getall" -> {{"chats.user_email"}}
    [] op = "get"    -> {{"chats.id", "chats.user_email"}}
    [] op = "create" -> {{"chats.user_email"}, {"chats.id"}}
    [] op = "append" -> {{"chats.id", "chats.user_email"}, {"messages.chat_id"}}
    [] op = "rename" -> {{"chats.id", "chats.user_email"}}
    [] op = "delete" -> {{"chats.id", "chats.user_email"}}
    [] op = "clear"  -> {{"chats.user_email"}}
    [] OTHER         -> {}

\* get_all with the messages of every chat loaded: the results the database may return
PgGetAllLoaded(chats, messages, owner) ==
  LET own   == PgOwned(chats, owner)
      loads == {h \in [own -> UNION {PgMessageOrders(messages, r.id) : r \in own}] :
                  \A r \in own : h[r] \in PgMessageOrders(messages, r.id)}
  IN  {[k \in 1..Cardinality(own) |-> PgLoad(f[k], h[f[k]])] :
         f \in PgGetAll(chats, owner), h \in loads}

(***************************************************************************)
(* The contract calls.  Every call goes to both backends with the same     *)
(* arguments, the same generated id and the same clock readings, and       *)
(* records both results in last.                                           *)
(***************************************************************************)
Ids == 1..NumIds

\* a clock reading: datetime.now() is never earlier than the reading before it
Readings == now..MaxTime

\* scalar_one_or_none / the rows a statement returned: one of the possible results
OneOf(S) == IF S = {} THEN {{}} ELSE {{x} : x \in S}

\* the record of a call: its arguments, what each backend returned, the ids of
\* the chats each backend evicted, and the WHERE clauses PostgreSQL ran
Call(op, owner, id, arg, memRes, pgRes, gone) ==
  [op |-> op, owner |-> owner, id |-> id, arg |-> arg,
   memRes |-> memRes, pgRes |-> pgRes, gone |-> gone, pgWhere |-> PgWhere(op)]

NoneGone == [mem |-> {}, pg |-> {}]

\* concurrent create coroutines on the PostgreSQL backend, each in its own
\* session_scope() transaction
NumTxs == 2

Txs == 1..NumTxs

\* a transaction slot with no create in it
NoTx == [pc |-> "idle", owner |-> "", count |-> 0, oldest |-> {}, id |-> 0, t |-> 0]

StoreInit ==
  /\ mem = [o \in Owners |-> <<>>]
  /\ pgChats = {}
  /\ pgMessages = <<>>
  /\ nextId = 1
  /\ now = 0
  /\ calls = 0
  /\ last = Call("init", "", 0, <<>>, {}, {}, NoneGone)
  /\ txs = [x \in Txs |-> NoTx]

\* create(owner, title) on both backends
CreateCall(o, title) ==
  /\ nextId <= NumIds
  /\ \E t \in Readings, victims \in OneOf(PgVictims(pgChats, o)) :
       LET m  == MemCreate(GetStorageForUser(mem, o), o, nextId, title, t)
           pg == PgCreate(pgChats, pgMessages, victims, o, nextId, title, t)
       IN  /\ mem' = [mem EXCEPT ![o] = m]
           /\ pgChats' = pg.chats
           /\ pgMessages' = pg.messages
           /\ now' = t
           /\ \E back \in OneOf(PgRefetch(pg.chats, pg.messages, nextId)) :
                last' = Call("create", o, nextId, title, {m[Len(m)]}, back,
                            [mem |-> MemIds(GetStorageForUser(mem, o)) \ MemIds(m),
                             pg  |-> {v.id : v \in victims}])
  /\ nextId' = nextId + 1
  /\ UNCHANGED txs

\* create(owner, title), called through the storage API
Create(o, title) ==
  /\ calls < MaxCalls
  /\ CreateCall(o, title)
  /\ calls' = calls + 1
  /\ UNCHANGED <<cacheVars, bridgeVars, singletonVars>>

\* add_message(chat_id, message) on both backends: the caller stamps the
\* message, the store then reads the clock for updated_at
AddMessageAt(o, id, msg, ts, t) ==
  LET stamped == [role |-> msg.role, content |-> msg.content, timestamp |-> ts]
      m  == MemAddMessage(GetStorageForUser(mem, o), id, stamped, t)
      pg == PgAddMessage(pgChats, pgMessages, o, id, stamped, t)
  IN  /\ mem' = [mem EXCEPT ![o] = m.chats]
      /\ pgChats' = pg.chats
      /\ pgMessages' = pg.messages
      /\ now' = t
      /\ last' = Call("append", o, id, stamped, m.res, pg.res, NoneGone)

AddMessageCall(o, id, msg) ==
  /\ \E ts \in Readings :
      \E t \in ts..MaxTime : AddMessageAt(o, id, msg, ts, t)
  /\ UNCHANGED <<nextId, txs>>

\* appendMessage(owner, sessionId, message), called through the storage API
AddMessage(o, id, msg) ==
  /\ calls < MaxCalls
  /\ AddMessageCall(o, id, msg)
  /\ calls' = IF last'.memRes \/ last'.pgRes THEN calls + 1 ELSE calls
  /\ UNCHANGED <<cacheVars, bridgeVars, singletonVars>>

\* renameTitle(owner, sessionId, title)
UpdateTitle(o, id, title) ==
  /\ calls < MaxCalls
  /\ \E t \in Readings :
       LET m  == MemUpdateTitle(GetStorageForUser(mem, o), id, title, t)
           pg == PgUpdateTitle(pgChats, o, id, title, t)
       IN  /\ mem' = [mem EXCEPT ![o] = m.chats]
           /\ pgChats' = pg.chats
           /\ now' = t
           /\ last' = Call("rename", o, id, title, m.res, pg.res, NoneGone)
           /\ calls' = IF m.res \/ pg.res THEN calls + 1 ELSE calls
  /\ UNCHANGED <<pgMessages, nextId, txs>>
  /\ UNCHANGED <<cacheVars, bridgeVars, singletonVars>>

\* delete(owner, sessionId)
Delete(o, id) ==
  LET m  == MemDelete(GetStorageForUser(mem, o), id)
      pg == PgDelete(pgChats, pgMessages, o, id)
  IN  /\ mem' = [mem EXCEPT ![o] = m.chats]
      /\ pgChats' = pg.chats
      /\ pgMessages' = pg.messages
      /\ last' = Call("delete", o, id, <<>>, m.res, pg.res, NoneGone)
      /\ UNCHANGED <<nextId, now, calls, txs>>
      /\ UNCHANGED <<cacheVars, bridgeVars, singletonVars>>

\* clearAll(owner)
ClearAll(o) ==
  LET m  == MemClearAll(GetStorageForUser(mem, o))
      pg == PgClearAll(pgChats, pgMessages, o)
  IN  /\ mem' = [mem EXCEPT ![o] = m.chats]
      /\ pgChats' = pg.chats
      /\ pgMessages' = pg.messages
      /\ last' = Call("clear", o, 0, <<>>, m.res, pg.res, NoneGone)
      /\ UNCHANGED <<nextId, now, calls, txs>>
      /\ UNCHANGED <<cacheVars, bridgeVars, singletonVars>>

\* get(chat_id) on both backends
GetCall(o, id) ==
  /\ \E got \in OneOf(PgGet(pgChats, pgMessages, o, id)) :
       last' = Call("get", o, id, <<>>, MemGet(GetStorageForUser(mem, o), id), got, NoneGone)
  /\ UNCHANGED <<mem, pgChats, pgMessages, nextId, now, txs>>

\* get(owner, sessionId), called through the storage API
Get(o, id) ==
  /\ GetCall(o, id)
  /\ UNCHANGED calls
  /\ UNCHANGED <<cacheVars, bridgeVars, singletonVars>>

\* listAll(owner)
GetAll(o) ==
  /\ \E got \in PgGetAllLoaded(pgChats, pgMessages, o) :
       last' = Call("getall", o, 0, <<>>, MemGetAll(GetStorageForUser(mem, o)), got, NoneGone)
  /\ UNCHANGED <<mem, pgChats, pgMessages, nextId, now, calls, txs>>
  /\ UNCHANGED <<cacheVars, bridgeVars, singletonVars>>

\* add_message(chat_id, msg) with a MessageModel the caller built: its
\* timestamp is whatever the caller put there, the store reads the clock
\* for updated_at only
AddMessageStamped(o, id, msg) ==
  /\ calls < MaxCalls
  /\ \E ts \in 0..MaxTime, t \in Readings : AddMessageAt(o, id, msg, ts, t)
  /\ calls' = IF last'.memRes \/ last'.pgRes THEN calls + 1 ELSE calls
  /\ UNCHANGED <<nextId, txs>>
  /\ UNCHANGED <<cacheVars, bridgeVars, singletonVars>>

\* the storage API used by a caller that stamps its own messages
StampedNext ==
  \/ \E o \in Owners, title \in CreateTitles : Create(o, title)
  \/ \E o \in Owners, id \in Ids, msg \in Msgs : AddMessageStamped(o, id, msg)
  \/ \E o \in Owners, id \in Ids : Get(o, id)
  \/ \E o \in Owners : GetAll(o)

StoreNext ==
  \/ \E o \in Owners, title \in CreateTitles : Create(o, title)
  \/ \E o \in Owners, id \in Ids, msg \in Msgs : AddMessage(o, id, msg)
  \/ \E o \in Owners, id \in Ids, title \in RenameTitles : UpdateTitle(o, id, title)
  \/ \E o \in Owners, id \in Ids : Delete(o, id)
  \/ \E o \in Owners : ClearAll(o)
  \/ \E o \in Owners, id \in Ids : Get(o, id)
  \/ \E o \in Owners : GetAll(o)

(***************************************************************************)
(* PostgresChatStorage.create as its round trips, several coroutines at a  *)
(* time.  The engine is created without an isolation level, so every       *)
(* statement reads what has been committed (READ COMMITTED); rows a        *)
(* session deleted or added are flushed by session.flush() and become      *)
(* visible to the others at the commit of session_scope().                 *)
(***************************************************************************)
\* SELECT count() FROM chats WHERE user_email
PgCreateCount(x, o) ==
  /\ txs[x].pc = "idle"
  /\ nextId + Cardinality({y \in Txs : txs[y].pc \in {"counted", "selected"}}) <= NumIds
  /\ txs' = [txs EXCEPT ![x] = [NoTx EXCEPT !.pc = "counted", !.owner = o,
                                            !.count = Cardinality(PgOwned(pgChats, o))]]
  /\ UNCHANGED <<mem, pgChats, pgMessages, nextId, now, calls, last>>
  /\ UNCHANGED <<cacheVars, bridgeVars, singletonVars>>

\* if current_count >= self.max_chats: SELECT ... ORDER BY updated_at ASC
\* LIMIT 1, session.delete(oldest) marks the row in the session
PgCreateSelectOldest(x) ==
  /\ txs[x].pc = "counted"
  /\ txs[x].count >= max_chats
  /\ \E oldest \in OneOf(PgOldest(pgChats, txs[x].owner)) :
       txs' = [txs EXCEPT ![x].pc = "selected", ![x].oldest = oldest]
  /\ UNCHANGED <<mem, pgChats, pgMessages, nextId, now, calls, last>>
  /\ UNCHANGED <<cacheVars, bridgeVars, singletonVars>>

\* the new ChatModel is added and session.flush() sends the DELETE and the
\* INSERT; the DELETE waits while another transaction that has not yet
\* committed holds the lock of the same row.  Then the re-fetch by id.
PgCreateFlush(x) ==
  /\ \/ txs[x].pc = "selected"
     \/ txs[x].pc = "counted" /\ txs[x].count < max_chats
  /\ \A y \in Txs \ {x} : txs[y].pc = "flushed" => txs[y].oldest \cap txs[x].oldest = {}
  /\ \E t \in Readings :
       /\ txs' = [txs EXCEPT ![x].pc = "flushed", ![x].id = nextId, ![x].t = t]
       /\ now' = t
  /\ nextId' = nextId + 1
  /\ UNCHANGED <<mem, pgChats, pgMessages, calls, last>>
  /\ UNCHANGED <<cacheVars, bridgeVars, singletonVars>>

\* session_scope() commits: the row deleted (if it is still there) goes with
\* its messages, the new row is there
PgCreateCommit(x) ==
  /\ txs[x].pc = "flushed"
  /\ LET pg == PgCreate(pgChats, pgMessages, txs[x].oldest \cap pgChats,
                        txs[x].owner, txs[x].id, NewChat, txs[x].t)
     IN  /\ pgChats' = pg.chats
         /\ pgMessages' = pg.messages
  /\ txs' = [txs EXCEPT ![x] = NoTx]
  /\ UNCHANGED <<mem, nextId, now, calls, last>>
  /\ UNCHANGED <<cacheVars, bridgeVars, singletonVars>>

PgCreateNext ==
  \/ \E x \in Txs, o \in Owners : PgCreateCount(x, o)
  \/ \E x \in Txs : PgCreateSelectOldest(x)
  \/ \E x \in Txs : PgCreateFlush(x)
  \/ \E x \in Txs : PgCreateCommit(x)

(***************************************************************************)
(* PostgresChatStorage.add_message as its round trips, several coroutines  *)
(* at a time, each in its own session_scope() transaction under READ       *)
(* COMMITTED.  The session is made with autoflush=False, so the UPDATE of  *)
(* the chat row and the INSERT of the message are sent at the commit.      *)
(***************************************************************************)
\* messages the transactions append in one run
MaxAppends == 2

\* SELECT chat WHERE id AND user_email finds the row; session.add(msg);
\* chat.updated_at = datetime.now()
PgAppendSelect(x, o, id, msg) ==
  /\ txs[x].pc = "idle"
  /\ Len(pgMessages) + Cardinality({y \in Txs : txs[y].pc # "idle"}) < MaxAppends
  /\ PgSelectChat(pgChats, id, o) # {}
  /\ \E ts \in Readings :
      \E t \in ts..MaxTime :
        /\ txs' = [txs EXCEPT ![x] =
                     [pc |-> "selected", owner |-> o, id |-> id, count |-> 0, t |-> t,
                      msg |-> [chat_id |-> id, role |-> msg.role, content |-> msg.content,
                               timestamp |-> ts]]]
        /\ now' = t
  /\ UNCHANGED <<mem, pgChats, pgMessages, nextId, calls, last>>
  /\ UNCHANGED <<cacheVars, bridgeVars, singletonVars>>

\* SELECT count() FROM messages WHERE chat_id: the committed messages
PgAppendCount(x) ==
  /\ txs[x].pc = "selected"
  /\ txs' = [txs EXCEPT ![x].pc = "counted", ![x].count = PgMsgCount(pgMessages, txs[x].id)]
  /\ UNCHANGED <<mem, pgChats, pgMessages, nextId, now, calls, last>>
  /\ UNCHANGED <<cacheVars, bridgeVars, singletonVars>>

PgAppendTitleAlways(count, msg, title) == PgAutoTitle(msg.content)

\* if msg_count == 0 and msg.role == 'user': chat.title = ...
PgAppendTitle(count, msg, title) ==
  IF count = 0 /\ msg.role = "user" THEN PgAutoTitle(msg.content) ELSE title

\* session_scope() commits: UPDATE chats SET updated_at (and title, when it
\* was assigned) WHERE id, INSERT INTO messages.  When the row has been
\* deleted meanwhile the flush fails and the transaction is rolled back.
PgAppendCommit(x) ==
  /\ txs[x].pc = "counted"
  /\ LET found == PgSelectChatById(pgChats, txs[x].id, txs[x].owner)
     IN  IF found = {}
         THEN UNCHANGED <<pgChats, pgMessages>>
         ELSE LET chat == CHOOSE r \in found : TRUE
              IN  /\ pgChats' = (pgChats \ {chat}) \cup
                       {Row(chat.id, chat.user_email,
                            PgAppendTitle(txs[x].count, txs[x].msg, chat.title), txs[x].t)}
                  /\ pgMessages' = Append(pgMessages, txs[x].msg)
  /\ txs' = [txs EXCEPT ![x] = NoTx]
  /\ UNCHANGED <<mem, nextId, now, calls, last>>
  /\ UNCHANGED <<cacheVars, bridgeVars, singletonVars>>

PgAppendNext ==
  \/ \E o \in Owners, title \in CreateTitles : Create(o, title)
  \/ \E x \in Txs, o \in Owners, id \in Ids, msg \in Msgs : PgAppendSelect(x, o, id, msg)
  \/ \E x \in Txs : PgAppendCount(x)
  \/ \E x \in Txs : PgAppendCommit(x)

(***************************************************************************)
(* Session Store claims                                                    *)
(***************************************************************************)
\* What the claims observe, read from the stores directly.
MemChats(o) == {mem[o][i] : i \in 1..Len(mem[o])}
MemChatsAfter(o) == {mem'[o][i] : i \in 1..Len(mem'[o])}
\* the chats owner o holds under id, in a memory store / in a chats table
MemHeld(store, o, id) == {store[o][i] : i \in {j \in 1..Len(store[o]) : store[o][j].id = id}}
PgHeld(chats, o, id) == {r \in chats : r.id = id /\ r.user_email = o}
PgRows(chats, o) == {r \in chats : r.user_email = o}
PgMsgs(messages, id) == SelectSeq(messages, LAMBDA m : m.chat_id = id)

\* the step is a contract call named op that changed last or the stores
IsCall(op) == last'.op = op

\* C1: immediately after any create call, every owner holds at most
\* max_chats sessions, in the in-memory store and in the PostgreSQL store.
C1_CapacityBound ==
  last.op = "create" =>
    \A o \in Owners : /\ Len(mem[o]) <= max_chats
                      /\ Cardinality(PgRows(pgChats, o)) <= max_chats

\* a create that evicted, leaving its owner exactly at the bound
C1_Witness ==
  /\ last.op = "create"
  /\ last.gone.mem # {} /\ last.gone.pg # {}
  /\ Len(mem[last.owner]) = max_chats
  /\ Cardinality(PgRows(pgChats, last.owner)) = max_chats

\* C2: a create for an owner who already holds max_chats sessions removes
\* exactly one existing session of that owner, one of minimal updated_at,
\* keeps every other session (and its messages) unchanged and inserts the
\* new session.
C2_EvictionStep ==
  LET o   == last'.owner
      new == Chat(last'.id, o, last'.arg, now', <<>>)
  IN  IsCall("create") /\ nextId' = nextId + 1 =>
        /\ Len(mem[o]) >= max_chats =>
             \E v \in MemChats(o) :
               /\ \A c \in MemChats(o) : v.updated_at <= c.updated_at
               /\ MemChatsAfter(o) = (MemChats(o) \ {v}) \cup {new}
               /\ new \notin MemChats(o)
               /\ Len(mem'[o]) = Len(mem[o])
        /\ Cardinality(PgRows(pgChats, o)) >= max_chats =>
             \E v \in PgRows(pgChats, o) :
               /\ \A c \in PgRows(pgChats, o) : v.updated_at <= c.updated_at
               /\ pgChats' = (pgChats \ {v}) \cup {Row(last'.id, o, last'.arg, now')}
               /\ Row(last'.id, o, last'.arg, now') \notin pgChats
               /\ pgMessages' = SelectSeq(pgMessages, LAMBDA m : m.chat_id # v.id)

C2_EvictionChoice == [][C2_EvictionStep]_vars

\* a create that evicted a chat which was not the first one created: the
\* choice was made by updated_at
C2_Witness ==
  /\ last.op = "create"
  /\ last.gone.mem # {} /\ 1 \notin last.gone.mem
  /\ last.gone.pg # {} /\ 1 \notin last.gone.pg

\* the title the first user message must give: the content when it has at
\* most 50 characters, else its first 50 characters and '...'
ExpectedTitle(content) ==
  IF Len(content) <= 50 THEN content
  ELSE [i \in 1..53 |-> IF i <= 50 THEN content[i] ELSE "."]

MemTitle(store, o, id) == {c.title : c \in MemHeld(store, o, id)}
PgTitle(chats, o, id) == {r.title : r \in PgHeld(chats, o, id)}

\* C3: the first message appended to a session sets the title to
\* ExpectedTitle(content) when its role is user and leaves the title
\* unchanged otherwise.
C3_FirstAppendStep ==
  LET o == last'.owner
      id == last'.id
      msg == last'.arg
  IN  IsCall("append") /\ calls' = calls + 1 =>
        /\ (\E c \in MemHeld(mem, o, id) : c.messages = <<>>) =>
             MemTitle(mem', o, id) =
               IF msg.role = "user" THEN {ExpectedTitle(msg.content)}
               ELSE MemTitle(mem, o, id)
        /\ (PgHeld(pgChats, o, id) # {} /\ PgMsgs(pgMessages, id) = <<>>) =>
             PgTitle(pgChats', o, id) =
               IF msg.role = "user" THEN {ExpectedTitle(msg.content)}
               ELSE PgTitle(pgChats, o, id)

C3_AutoTitle == [][C3_FirstAppendStep]_vars

\* a first user message of more than 50 characters has just been appended
\* and the title is its first 50 characters and the ellipsis
C3_Witness ==
  /\ last.op = "append" /\ last.memRes /\ last.pgRes
  /\ last.arg.role = "user" /\ Len(last.arg.content) > 50
  /\ \E c \in MemHeld(mem, last.owner, last.id) :
       Len(c.messages) = 1 /\ Len(c.title) = 53 /\ c.title[53] = "."
  /\ Len(PgMsgs(pgMessages, last.id)) = 1
  /\ \E r \in PgHeld(pgChats, last.owner, last.id) : Len(r.title) = 53

\* C4: an append to a session that already holds a message leaves the
\* title unchanged, whatever the roles of the messages.
C4_LaterAppendStep ==
  LET o == last'.owner
      id == last'.id
  IN  IsCall("append") /\ calls' = calls + 1 =>
        /\ (\E c \in MemHeld(mem, o, id) : c.messages # <<>>) =>
             MemTitle(mem', o, id) = MemTitle(mem, o, id)
        /\ (PgHeld(pgChats, o, id) # {} /\ PgMsgs(pgMessages, id) # <<>>) =>
             PgTitle(pgChats', o, id) = PgTitle(pgChats, o, id)

C4_TitleOnce == [][C4_LaterAppendStep]_vars

\* a user message has just been appended after an assistant message and the
\* title is still the one given to create
C4_Witness ==
  /\ last.op = "append" /\ last.memRes /\ last.pgRes /\ last.arg.role = "user"
  /\ \E c \in MemHeld(mem, last.owner, last.id) :
       /\ Len(c.messages) = 2 /\ c.messages[1].role = "assistant"
       /\ c.title = NewChat
  /\ Len(PgMsgs(pgMessages, last.id)) = 2
  /\ PgMsgs(pgMessages, last.id)[1].role = "assistant"
  /\ \E r \in PgHeld(pgChats, last.owner, last.id) : r.title = NewChat

\* C5: appendMessage with an id that the owner holds no session under
\* (absent, or held by another owner) returns false and changes nothing.
C5_RejectedAppendStep ==
  LET o == last'.owner
      id == last'.id
  IN  IsCall("append") =>
        /\ MemHeld(mem, o, id) = {} => ~last'.memRes /\ mem' = mem
        /\ PgHeld(pgChats, o, id) = {} =>
             ~last'.pgRes /\ pgChats' = pgChats /\ pgMessages' = pgMessages

C5_AppendRejected == [][C5_RejectedAppendStep]_vars

\* an append to a session of another owner has just returned false
C5_Witness ==
  /\ last.op = "append" /\ ~last.memRes /\ ~last.pgRes
  /\ \E other \in Owners \ {last.owner} :
       /\ MemHeld(mem, other, last.id) # {}
       /\ PgHeld(pgChats, other, last.id) # {}


\* the chats a call returned, from either backend
Returned(c) ==
  CASE c.op \in {"get", "create"} -> c.memRes \cup c.pgRes
    [] c.op = "getall" -> {c.memRes[i] : i \in 1..Len(c.memRes)}
                            \cup {c.pgRes[i] : i \in 1..Len(c.pgRes)}
    [] OTHER -> {}

\* a call made for owner a returns only chats and messages of a and leaves
\* the chats and messages of every other owner as they were
C6_IsolationStep ==
  \A a \in Owners :
    last'.owner = a =>
      /\ \A c \in Returned(last') :
           /\ c.user_email = a
           /\ \A k \in 1..Len(c.messages) : c.messages[k].chat_id = c.id
      /\ \A b \in Owners \ {a} :
           /\ mem'[b] = mem[b]
           /\ PgRows(pgChats', b) = PgRows(pgChats, b)
           /\ \A r \in PgRows(pgChats, b) :
                PgMsgs(pgMessages', r.id) = PgMsgs(pgMessages, r.id)

\* every WHERE clause of the last call filters on the owner
C6_EveryLookupOwned == \A w \in last.pgWhere : "chats.user_email" \in w

\* every WHERE clause of the last call filters on the owner, but for the
\* re-fetch of the chat create has just inserted and the message count of
\* the chat add_message has just found under the owner
C6_LookupsOwnedButTwo ==
  \A w \in last.pgWhere :
    \/ "chats.user_email" \in w
    \/ last.op = "create" /\ w = {"chats.id"}
    \/ last.op = "append" /\ w = {"messages.chat_id"}

C21_ConcurrentCreates ==
  (\A x \in Txs : txs[x].pc = "idle")
     => \A o \in Owners : Cardinality(PgRows(pgChats, o)) <= max_chats

\* two creates of one owner have both counted before either committed, and
\* both have committed
C21_Witness ==
  /\ \A x \in Txs : txs[x].pc = "idle"
  /\ \E o \in Owners : Cardinality(PgRows(pgChats, o)) = max_chats + 1

\* C18: backend parity.  After every contract call the two backends have
\* returned equal results, evicted the same sessions and hold equal
\* sessions (ids, owners, titles, updated_at, messages in order).
C18_MemRows(o) ==
  {[id |-> c.id, user_email |-> c.user_email, title |-> c.title, updated_at |-> c.updated_at] :
     c \in MemChats(o)}

C18_SameState ==
  \A o \in Owners :
     /\ C18_MemRows(o) = PgRows(pgChats, o)
     /\ \A c \in MemChats(o) : c.messages = PgMsgs(pgMessages, c.id)

C18_SameResults ==
  /\ last.memRes = last.pgRes
  /\ last.gone.mem = last.gone.pg

C18_BackendParity == C18_SameResults /\ C18_SameState

\* no two sessions of one owner share updated_at, and no two messages of
\* one session share a timestamp
C18_NoTies ==
  /\ \A o \in Owners : \A r, q \in PgRows(pgChats, o) : r # q => r.updated_at # q.updated_at
  /\ \A id \in Ids :
        \A k, n \in 1..Len(PgMsgs(pgMessages, id)) :
           k # n => PgMsgs(pgMessages, id)[k].timestamp # PgMsgs(pgMessages, id)[n].timestamp

\* parity of every call made on equal states without ties
C18_TieFreeStep == (C18_SameState /\ C18_NoTies) => C18_BackendParity'

C18_ParityWithoutTies == [][C18_TieFreeStep]_vars

\* a create at the bound among sessions of equal updated_at: the memory
\* backend evicted one session, PostgreSQL another
C18_Witness ==
  /\ last.op = "create"
  /\ last.gone.mem # {} /\ last.gone.pg # {}
  /\ last.gone.mem # last.gone.pg



\* the step is a successful call named op on chat id of owner o
C29_Did(op, o, id) ==
  /\ last'.op = op /\ last'.owner = o /\ last'.id = id
  /\ last' # last \/ mem' # mem \/ pgChats' # pgChats \/ pgMessages' # pgMessages

C29_MemStep(o, id) ==
  \A before \in MemHeld(mem, o, id), after \in MemHeld(mem', o, id) :
     /\ after.updated_at >= before.updated_at
     /\ ((C29_Did("append", o, id) \/ C29_Did("rename", o, id)) /\ last'.memRes) =>
          after.updated_at = now'

C29_PgStep(o, id) ==
  \A before \in PgHeld(pgChats, o, id), after \in PgHeld(pgChats', o, id) :
     /\ after.updated_at >= before.updated_at
     /\ ((C29_Did("append", o, id) \/ C29_Did("rename", o, id)) /\ last'.pgRes) =>
          after.updated_at = now'

\* C29: in both backends the updated_at of a session never decreases over
\* any sequence of calls, and every successful appendMessage and renameTitle
\* sets it to the clock reading of that call.
C29_UpdatedAtMonotone ==
  [][\A o \in Owners, id \in Ids : C29_MemStep(o, id) /\ C29_PgStep(o, id)]_vars

\* two overlapping appends on one PostgreSQL session have committed, the
\* one that read the clock first last: updated_at is earlier than the
\* timestamp of a message the session holds
C29_Witness ==
  /\ \A x \in Txs : txs[x].pc = "idle"
  /\ \E r \in pgChats :
       /\ Len(PgMsgs(pgMessages, r.id)) = 2
       /\ r.updated_at = 0
       /\ PgMsgs(pgMessages, r.id)[1].timestamp = 1


\* msgs sorted by timestamp ascending, equal timestamps in the order of msgs
C30_StableByTimestamp(msgs) ==
  LET n == Len(msgs)
      f == CHOOSE g \in Orderings(1..n, [i \in 1..n |-> msgs[i].timestamp], TRUE) :
             \A i, j \in 1..n : (i < j /\ msgs[g[i]].timestamp = msgs[g[j]].timestamp) => g[i] < g[j]
  IN  [k \in 1..n |-> msgs[f[k]]]

\* the sessions the last get or listAll returned, from each backend
C30_Returned(res) ==
  IF last.op = "get" THEN res
  ELSE IF last.op = "getall" THEN {res[k] : k \in 1..Len(res)}
  ELSE {}

\* C30: every session returned by get or listAll carries a message list,
\* sorted by timestamp ascending with messages of equal timestamp in
\* insertion order, whatever timestamps the appended messages carried.
C30_MessageOrder ==
  /\ \A c \in C30_Returned(last.memRes) :
       /\ "messages" \in DOMAIN c
       /\ \A held_chat \in MemHeld(mem, c.user_email, c.id) :
            c.messages = C30_StableByTimestamp(held_chat.messages)
  /\ \A c \in C30_Returned(last.pgRes) :
       /\ "messages" \in DOMAIN c
       /\ c.messages = C30_StableByTimestamp(PgMsgs(pgMessages, c.id))

\* get returned, from the in-memory store, a session whose first message
\* carries a later timestamp than its second
C30_Witness ==
  /\ last.op = "get"
  /\ \E c \in last.memRes :
       /\ Len(c.messages) = 2
       /\ c.messages[1].timestamp > c.messages[2].timestamp


C31_DeleteStep ==
  (last'.op = "delete" /\ (last' # last \/ mem' # mem \/ pgChats' # pgChats)) =>
    LET o  == last'.owner
        id == last'.id
    IN  /\ last'.memRes = (MemHeld(mem, o, id) # {})
        /\ last'.pgRes = (PgHeld(pgChats, o, id) # {})
        /\ MemHeld(mem', o, id) = {}
        /\ PgHeld(pgChats', o, id) = {}
        /\ PgHeld(pgChats, o, id) # {} => PgMsgs(pgMessages', id) = <<>>
        /\ \A q \in Owners :
             MemChatsAfter(q) = MemChats(q) \ (IF q = o THEN MemHeld(mem, o, id) ELSE {})
        /\ pgChats' = pgChats \ PgHeld(pgChats, o, id)
        /\ \A other \in Ids :
             (other # id \/ PgHeld(pgChats, o, id) = {}) =>
                PgMsgs(pgMessages', other) = PgMsgs(pgMessages, other)
        /\ (last.op = "delete" /\ last.owner = o /\ last.id = id) =>
             ~last'.memRes /\ ~last'.pgRes

\* C31: delete(owner, id) returns true exactly when the owner holds a
\* session under that id; afterwards the session is absent and none of its
\* messages remain stored, every other session of every owner and its
\* messages are unchanged, and a second delete of the same id returns
\* false.
C31_Delete == [][C31_DeleteStep]_vars

\* a session has been deleted from both stores while another session of
\* the same owner keeps its messages
C31_Witness ==
  /\ last.op = "delete" /\ last.memRes /\ last.pgRes
  /\ \E c \in MemChats(last.owner) : c.messages # <<>>
  /\ \E r \in PgRows(pgChats, last.owner) : PgMsgs(pgMessages, r.id) # <<>>


\* C34: whatever way appendMessage calls on a fresh session of the
\* PostgreSQL store overlap, the title comes from at most one of them, the
\* message that is first in the session's message list: the auto-title of
\* that message when it is a user message, else the title of create.
C34_TitleFromFirst ==
  \A r \in pgChats :
     PgMsgs(pgMessages, r.id) # <<>> =>
       \E ord \in PgMessageOrders(pgMessages, r.id) :
          r.title = IF ord[1].role = "user" THEN ExpectedTitle(ord[1].content) ELSE NewChat

\* two appends on a fresh session have both committed; the title is that
\* of the message with the later timestamp
C34_Witness ==
  /\ \A x \in Txs : txs[x].pc = "idle"
  /\ \E r \in pgChats :
       LET msgs == PgMsgs(pgMessages, r.id)
       IN  /\ Len(msgs) = 2
           /\ msgs[1].role = "user" /\ msgs[2].role = "user"
           /\ msgs[1].timestamp < msgs[2].timestamp
           /\ msgs[1].content # msgs[2].content
           /\ r.title = ExpectedTitle(msgs[2].content)

(***************************************************************************)
(* Metadata Cache: AgentBricksService (agent_bricks_service.py)            *)
(***************************************************************************)
\* CACHE_TTL_SECONDS = 300
CACHE_TTL_SECONDS == 300

\* coroutines of the request path calling async_get_agent_details_from_endpoint
NumCallers == 2
\* calls one caller makes in one run
MaxLookups == 2
\* background refresh threads started in one run
MaxThreads == 2
\* seconds the wall clock advances in one step
TickSeconds == 150
\* steps of the wall clock in one run
MaxTicks == 4

Callers == 1..NumCallers

\* endpoint names
Keys == {"mas-a", "mas-b"}

\* the descriptor the Agent Bricks API serves changes between fetches
Payloads == {"v1", "v2"}

\* threading.Lock(): free, or held by a caller or a refresh thread inside
\* one of the three `with self._cache_lock` blocks, with what the block is
\* about to do
NoHolder == [kind |-> "none", id |-> 0]

NoLock == [holder |-> NoHolder, op |-> "none", key |-> "none", data |-> "none"]

\* the flows that run _fetch_agent_details: the request path and a refresh thread
Flows == {"request", "refresh"}

NoFetch == [pc |-> "idle", wrote |-> "None", read |-> "None", runs |-> 0]

NoCall == [pc |-> "idle", key |-> "none", res |-> "none", how |-> "none", n |-> 0]

\* what a caller got back from its n-th call
CallReturn(c, k, res, how) ==
  [pc |-> "idle", key |-> k, res |-> res, how |-> how, n |-> c.n + 1]

\* self._agent_cache[endpoint_name] = {...}
Put(entries, k, entry) ==
  [x \in DOMAIN entries \cup {k} |-> IF x = k THEN entry ELSE entries[x]]

AgeOfClock(entry, t) == t

\* age = time.time() - entry['timestamp']
Age(entry, t) == t - entry.timestamp

\* if age < CACHE_TTL_SECONDS
IsFresh(entry, t) == Age(entry, t) < CACHE_TTL_SECONDS

SetCacheFlagged(entries, k, data, t) ==
  Put(entries, k, [data |-> data, timestamp |-> t, refreshing |-> TRUE])

\* _set_cache, under _cache_lock
SetCache(entries, k, data, t) ==
  Put(entries, k, [data |-> data, timestamp |-> t, refreshing |-> FALSE])

\* refresh threads of key k that are alive
InFlight(k) == {r \in refreshers : r.key = k}

CountFetchShared(k) ==
  IF \E d \in Callers : callers[d].pc = "fetching" /\ callers[d].key = k
  THEN fetches
  ELSE [fetches EXCEPT ![k] = @ + 1]

\* a call of _fetch_agent_details for key k
CountFetch(k) == [fetches EXCEPT ![k] = @ + 1]

CacheInit ==
  /\ lock = NoLock
  /\ kaTiles = "None"
  /\ fetchers = [f \in Flows |-> NoFetch]
  /\ cache = <<>>
  /\ callers = [c \in Callers |-> NoCall]
  /\ refreshers = {}
  /\ nextThread = 1
  /\ fetches = [k \in Keys |-> 0]
  /\ clock = 0

\* async_get_agent_details_from_endpoint up to its first suspension point:
\* _get_from_cache under the lock, then either the return of the cached data
\* or the start of the caller's own fetch
\* _get_from_cache inside its lock, and what the coroutine does with the answer
GetFromCacheBody(c, k) ==
     IF k \notin DOMAIN cache
     THEN \* entry is None: cache miss, await self._fetch_agent_details
          /\ callers' = [callers EXCEPT ![c] = [@ EXCEPT !.pc = "fetching", !.key = k]]
          /\ fetches' = CountFetch(k)
          /\ UNCHANGED <<cache, refreshers, nextThread>>
     ELSE IF IsFresh(cache[k], clock)
     THEN \* fresh data, return it
          /\ callers' = [callers EXCEPT ![c] = CallReturn(@, k, cache[k].data, "hit")]
          /\ UNCHANGED <<cache, refreshers, nextThread, fetches>>
     ELSE IF ~cache[k].refreshing
     THEN \* stale: mark, start the refresh thread, return the stale data
          /\ nextThread <= MaxThreads
          /\ cache' = [cache EXCEPT ![k].refreshing = TRUE]
          /\ refreshers' = refreshers \cup {[id |-> nextThread, key |-> k]}
          /\ nextThread' = nextThread + 1
          /\ fetches' = CountFetch(k)
          /\ callers' = [callers EXCEPT ![c] = CallReturn(@, k, cache[k].data, "stale")]
     ELSE \* stale and already refreshing: return the stale data
          /\ callers' = [callers EXCEPT ![c] = CallReturn(@, k, cache[k].data, "stale")]
          /\ UNCHANGED <<cache, refreshers, nextThread, fetches>>

GetOrFetch(c, k) ==
  /\ callers[c].pc = "idle"
  /\ callers[c].n < MaxLookups
  /\ GetFromCacheBody(c, k)
  /\ UNCHANGED clock
  /\ UNCHANGED <<lock, kaTiles, fetchers>>
  /\ UNCHANGED <<storeVars, bridgeVars, singletonVars>>

\* the caller's own fetch returns: _set_cache, return data
FetchReturns(c, data) ==
  /\ callers[c].pc = "fetching"
  /\ cache' = SetCache(cache, callers[c].key, data, clock)
  /\ callers' = [callers EXCEPT ![c] = CallReturn(@, @.key, data, "miss")]
  /\ UNCHANGED <<refreshers, nextThread, fetches, clock>>
  /\ UNCHANGED <<lock, kaTiles, fetchers>>
  /\ UNCHANGED <<storeVars, bridgeVars, singletonVars>>

\* the caller's own fetch raises: the exception propagates to the caller
FetchRaises(c) ==
  /\ callers[c].pc = "fetching"
  /\ callers' = [callers EXCEPT ![c] = CallReturn(@, @.key, "none", "raised")]
  /\ UNCHANGED <<cache, refreshers, nextThread, fetches, clock>>
  /\ UNCHANGED <<lock, kaTiles, fetchers>>
  /\ UNCHANGED <<storeVars, bridgeVars, singletonVars>>

\* refresh_task: the fetch returns, _set_cache, the thread ends
RefreshReturns(r, data) ==
  /\ r \in refreshers
  /\ cache' = SetCache(cache, r.key, data, clock)
  /\ refreshers' = refreshers \ {r}
  /\ UNCHANGED <<callers, nextThread, fetches, clock>>
  /\ UNCHANGED <<lock, kaTiles, fetchers>>
  /\ UNCHANGED <<storeVars, bridgeVars, singletonVars>>

\* refresh_task: the fetch raises, the flag of the entry is cleared, the thread ends
RefreshRaises(r) ==
  /\ r \in refreshers
  /\ cache' = IF r.key \in DOMAIN cache
              THEN [cache EXCEPT ![r.key].refreshing = FALSE]
              ELSE cache
  /\ refreshers' = refreshers \ {r}
  /\ UNCHANGED <<callers, nextThread, fetches, clock>>
  /\ UNCHANGED <<lock, kaTiles, fetchers>>
  /\ UNCHANGED <<storeVars, bridgeVars, singletonVars>>

\* time passes on the wall clock read by time.time()
Tick ==
  /\ clock < MaxTicks * TickSeconds
  /\ clock' = clock + TickSeconds
  /\ UNCHANGED <<cache, callers, refreshers, nextThread, fetches>>
  /\ UNCHANGED <<lock, kaTiles, fetchers>>
  /\ UNCHANGED <<storeVars, bridgeVars, singletonVars>>

(***************************************************************************)
(* The same service with the lock shown: every `with self._cache_lock`     *)
(* block is two steps, the acquisition (which waits while the lock is      *)
(* held) and the body with the release.                                    *)
(***************************************************************************)
CallerHolder(c) == [kind |-> "caller", id |-> c]

ThreadHolder(r) == [kind |-> "thread", id |-> r.id]

HeldFor(holder, op, k, data) == [holder |-> holder, op |-> op, key |-> k, data |-> data]

ReleasedNever(owned) == owned

\* leaving the with block
Released(owned) == NoLock

\* _get_from_cache: with self._cache_lock
LockForGet(c, k) ==
  /\ callers[c].pc = "idle"
  /\ callers[c].n < MaxLookups
  /\ lock = NoLock
  /\ lock' = HeldFor(CallerHolder(c), "get", k, "none")
  /\ callers' = [callers EXCEPT ![c] = [@ EXCEPT !.pc = "in-get", !.key = k]]
  /\ UNCHANGED <<cache, refreshers, nextThread, fetches, clock, kaTiles, fetchers>>
  /\ UNCHANGED <<storeVars, bridgeVars, singletonVars>>

\* the body of _get_from_cache, the release, and the return of the cached
\* data or the start of the caller's own fetch
GetFromCache(c) ==
  /\ lock.holder = CallerHolder(c) /\ lock.op = "get"
  /\ GetFromCacheBody(c, lock.key)
  /\ lock' = Released(lock)
  /\ UNCHANGED <<clock, kaTiles, fetchers>>
  /\ UNCHANGED <<storeVars, bridgeVars, singletonVars>>

\* the caller's fetch has returned data: _set_cache, with self._cache_lock
LockForSet(c, data) ==
  /\ callers[c].pc = "fetching"
  /\ lock = NoLock
  /\ lock' = HeldFor(CallerHolder(c), "set", callers[c].key, data)
  /\ callers' = [callers EXCEPT ![c].pc = "in-set"]
  /\ UNCHANGED <<cache, refreshers, nextThread, fetches, clock, kaTiles, fetchers>>
  /\ UNCHANGED <<storeVars, bridgeVars, singletonVars>>

\* the body of _set_cache, the release, return data
SetCacheAndReturn(c) ==
  /\ lock.holder = CallerHolder(c) /\ lock.op = "set"
  /\ cache' = SetCache(cache, lock.key, lock.data, clock)
  /\ callers' = [callers EXCEPT ![c] = CallReturn(@, @.key, lock.data, "miss")]
  /\ lock' = Released(lock)
  /\ UNCHANGED <<refreshers, nextThread, fetches, clock, kaTiles, fetchers>>
  /\ UNCHANGED <<storeVars, bridgeVars, singletonVars>>

\* refresh_task: the fetch has returned data: _set_cache, with self._cache_lock
RefresherLockForSet(r, data) ==
  /\ r \in refreshers
  /\ lock = NoLock
  /\ lock' = HeldFor(ThreadHolder(r), "set", r.key, data)
  /\ UNCHANGED <<cache, callers, refreshers, nextThread, fetches, clock, kaTiles, fetchers>>
  /\ UNCHANGED <<storeVars, bridgeVars, singletonVars>>

\* refresh_task: the fetch has raised: with self._cache_lock in the handler
RefresherLockForClear(r) ==
  /\ r \in refreshers
  /\ lock = NoLock
  /\ lock' = HeldFor(ThreadHolder(r), "clear", r.key, "none")
  /\ UNCHANGED <<cache, callers, refreshers, nextThread, fetches, clock, kaTiles, fetchers>>
  /\ UNCHANGED <<storeVars, bridgeVars, singletonVars>>

\* refresh_task: the body of _set_cache, the release, the thread ends
RefresherSetCache(r) ==
  /\ r \in refreshers
  /\ lock.holder = ThreadHolder(r) /\ lock.op = "set"
  /\ cache' = SetCache(cache, lock.key, lock.data, clock)
  /\ refreshers' = refreshers \ {r}
  /\ lock' = Released(lock)
  /\ UNCHANGED <<callers, nextThread, fetches, clock, kaTiles, fetchers>>
  /\ UNCHANGED <<storeVars, bridgeVars, singletonVars>>

RefresherClearFlagKept(r) ==
  /\ r \in refreshers
  /\ lock.holder = ThreadHolder(r) /\ lock.op = "clear"
  /\ refreshers' = refreshers \ {r}
  /\ lock' = Released(lock)
  /\ UNCHANGED <<cache, callers, nextThread, fetches, clock, kaTiles, fetchers>>
  /\ UNCHANGED <<storeVars, bridgeVars, singletonVars>>

\* refresh_task: if entry: entry['refreshing'] = False, the release, the thread ends
RefresherClearFlag(r) ==
  /\ r \in refreshers
  /\ lock.holder = ThreadHolder(r) /\ lock.op = "clear"
  /\ cache' = IF lock.key \in DOMAIN cache
              THEN [cache EXCEPT ![lock.key].refreshing = FALSE]
              ELSE cache
  /\ refreshers' = refreshers \ {r}
  /\ lock' = Released(lock)
  /\ UNCHANGED <<callers, nextThread, fetches, clock, kaTiles, fetchers>>
  /\ UNCHANGED <<storeVars, bridgeVars, singletonVars>>

\* a refresh thread's next step: its fetch ends and it asks for the lock, or
\* it runs the body it holds the lock for
RefresherStep ==
  \E r \in refreshers :
     \/ \E data \in Payloads : RefresherLockForSet(r, data)
     \/ RefresherLockForClear(r)
     \/ RefresherSetCache(r)
     \/ RefresherClearFlag(r)

\* a caller inside a lock body runs it and leaves
CallerBodyStep == \E c \in Callers : GetFromCache(c) \/ SetCacheAndReturn(c)

LockNext ==
  \/ \E c \in Callers, k \in Keys : LockForGet(c, k)
  \/ \E c \in Callers : GetFromCache(c)
  \/ \E c \in Callers, data \in Payloads : LockForSet(c, data)
  \/ \E c \in Callers : SetCacheAndReturn(c)
  \/ \E c \in Callers : FetchRaises(c)
  \/ \E r \in refreshers, data \in Payloads : RefresherLockForSet(r, data)
  \/ \E r \in refreshers : RefresherLockForClear(r)
  \/ \E r \in refreshers : RefresherSetCache(r)
  \/ \E r \in refreshers : RefresherClearFlag(r)
  \/ Tick

(***************************************************************************)
(* _fetch_agent_details as the flows run it: the request path on the       *)
(* event loop and a refresh thread on its own loop, both on the one        *)
(* service object.  Each await is a point where the other flow runs; the   *)
(* thread runs in parallel with the event loop throughout.                 *)
(***************************************************************************)
\* fetches one flow runs
MaxFetchRuns == 2

\* what GET tiles?filter=KA returns changes between calls
TileLists == {"tiles-1", "tiles-2"}

\* mas, ka_tiles = await asyncio.gather(...); self._ka_tiles_cache = ka_tiles
FetchGather(f, tiles) ==
  /\ fetchers[f].pc = "idle"
  /\ fetchers[f].runs < MaxFetchRuns
  /\ kaTiles' = tiles
  /\ fetchers' = [fetchers EXCEPT ![f] = [pc |-> "gathered", wrote |-> tiles, read |-> "None",
                                           runs |-> @.runs + 1]]
  /\ UNCHANGED <<cache, callers, refreshers, nextThread, fetches, clock, lock>>
  /\ UNCHANGED <<storeVars, bridgeVars, singletonVars>>

\* _async_get_ka_tile_id, reached from the enrichment of a KA tool:
\* if self._ka_tiles_cache is None
EnrichCheck(f) ==
  /\ fetchers[f].pc = "gathered"
  /\ fetchers' = [fetchers EXCEPT ![f].pc = IF kaTiles = "None" THEN "refetching" ELSE "iterating"]
  /\ UNCHANGED <<cache, callers, refreshers, nextThread, fetches, clock, lock, kaTiles>>
  /\ UNCHANGED <<storeVars, bridgeVars, singletonVars>>

\* self._ka_tiles_cache = await self._async_get_tiles(client, 'KA')
EnrichRefetch(f, tiles) ==
  /\ fetchers[f].pc = "refetching"
  /\ kaTiles' = tiles
  /\ fetchers' = [fetchers EXCEPT ![f].pc = "iterating", ![f].wrote = tiles]
  /\ UNCHANGED <<cache, callers, refreshers, nextThread, fetches, clock, lock>>
  /\ UNCHANGED <<storeVars, bridgeVars, singletonVars>>

\* for tile in self._ka_tiles_cache: the list the attribute holds now; when
\* it is None the TypeError is caught and the tool stays without its tile
EnrichIterate(f) ==
  /\ fetchers[f].pc = "iterating"
  /\ fetchers' = [fetchers EXCEPT ![f].pc = "enriched", ![f].read = kaTiles]
  /\ UNCHANGED <<cache, callers, refreshers, nextThread, fetches, clock, lock, kaTiles>>
  /\ UNCHANGED <<storeVars, bridgeVars, singletonVars>>

\* self._ka_tiles_cache = None, and the fetch returns
FetchClear(f) ==
  /\ fetchers[f].pc = "enriched"
  /\ kaTiles' = "None"
  /\ fetchers' = [fetchers EXCEPT ![f].pc = "idle"]
  /\ UNCHANGED <<cache, callers, refreshers, nextThread, fetches, clock, lock>>
  /\ UNCHANGED <<storeVars, bridgeVars, singletonVars>>

FetchNext ==
  \/ \E f \in Flows, tiles \in TileLists : FetchGather(f, tiles)
  \/ \E f \in Flows : EnrichCheck(f)
  \/ \E f \in Flows, tiles \in TileLists : EnrichRefetch(f, tiles)
  \/ \E f \in Flows : EnrichIterate(f)
  \/ \E f \in Flows : FetchClear(f)

CacheNext ==
  \/ \E c \in Callers, k \in Keys : GetOrFetch(c, k)
  \/ \E c \in Callers, data \in Payloads : FetchReturns(c, data)
  \/ \E c \in Callers : FetchRaises(c)
  \/ \E r \in refreshers, data \in Payloads : RefreshReturns(r, data)
  \/ \E r \in refreshers : RefreshRaises(r)
  \/ Tick

(***************************************************************************)
(* Metadata Cache: properties                                              *)
(***************************************************************************)
\* caller c is inside a call in this state and has returned from it in the next
CallEnds(c) == callers'[c].n = callers[c].n + 1

\* caller c starts a call of key k in this step
CallStarts(c, k) ==
  /\ callers[c].pc = "idle"
  /\ callers'[c] # callers[c]
  /\ callers'[c].key = k

StoredAt(k) == cache[k].timestamp

C7_HitStep ==
  \A c \in Callers, k \in Keys :
    /\ (CallStarts(c, k) /\ k \notin DOMAIN cache)
         => /\ fetches' = [fetches EXCEPT ![k] = fetches[k] + 1]
            /\ ~CallEnds(c)
    /\ (callers[c].pc = "fetching" /\ callers[c].key = k
          /\ CallEnds(c) /\ callers'[c].how = "miss")
         => /\ fetches' = fetches
            /\ cache'[k].data = callers'[c].res
            /\ cache'[k].timestamp = clock
    /\ (CallStarts(c, k) /\ k \in DOMAIN cache /\ clock - StoredAt(k) < 300)
         => /\ CallEnds(c)
            /\ callers'[c].res = cache[k].data
            /\ fetches' = fetches
            /\ refreshers' = refreshers
            /\ cache' = cache

\* C7: a cold call of getOrFetch invokes the fetch once and stores what it
\* returned with the time of storing; a call for the same key made less
\* than TTL (300 s) after the entry was stored returns the cached payload
\* and invokes no fetch, so after the two calls the fetch has been invoked
\* exactly once in total.
C7_CacheHitWithinTTL == [][C7_HitStep]_vars

\* one caller has called twice for the same key, the second call 150 s after
\* the entry was stored; it was answered from the cache with the payload of
\* the first call and the fetch has run once
C7_Witness ==
  \E c \in Callers :
    /\ callers[c].n = 2 /\ callers[c].how = "hit"
    /\ callers[c].key \in DOMAIN cache
    /\ callers[c].res = cache[callers[c].key].data
    /\ clock - cache[callers[c].key].timestamp = 150
    /\ fetches[callers[c].key] = 1
    /\ \A d \in Callers \ {c} : callers[d].n = 0 /\ callers[d].pc = "idle"

C8_StaleStep ==
  \A c \in Callers, k \in Keys :
    (CallStarts(c, k) /\ k \in DOMAIN cache /\ clock - StoredAt(k) >= 300)
      => /\ CallEnds(c)
         /\ callers'[c].res = cache[k].data
         /\ cache'[k].data = cache[k].data
         /\ cache'[k].timestamp = cache[k].timestamp

C8_SingleFlight ==
  \A k \in Keys : Cardinality({r \in refreshers : r.key = k}) <= 1

\* a stale entry is served at once, whatever the refresh threads do
C8_StaleServedAtOnce == [][C8_StaleStep]_vars

\* two refresh threads of one key are alive at the same time
C8_Witness ==
  \E k \in Keys : Cardinality({r \in refreshers : r.key = k}) = 2

\* C8: a call for a key whose entry is at least TTL old returns the
\* previously stored payload at once, without waiting for a fetch, and in
\* every interleaving of concurrent callers at most one background refresh
\* of that key is in flight.
C8_StaleWhileRevalidateSingleFlight ==
  [][C8_StaleStep]_vars /\ []C8_SingleFlight

\* C20: a call for a key that has no entry starts the caller's own fetch
\* (no refresh thread); when that fetch returns, the entry of the key is
\* (the payload, the time of storing, refreshing = FALSE) in the step in
\* which the call returns, other keys untouched; when it raises, the call
\* ends with the failure and the step leaves the cache as it was.
C20_ColdStep ==
  \A c \in Callers, k \in Keys :
    /\ (CallStarts(c, k) /\ k \notin DOMAIN cache)
         => /\ callers'[c].pc = "fetching"
            /\ callers'[c].n = callers[c].n
            /\ fetches' = [fetches EXCEPT ![k] = fetches[k] + 1]
            /\ refreshers' = refreshers
            /\ cache' = cache
    /\ (callers[c].pc = "fetching" /\ callers[c].key = k /\ CallEnds(c))
         => IF callers'[c].how = "raised"
            THEN /\ cache' = cache
                 /\ callers'[c].res = "none"
            ELSE /\ callers'[c].how = "miss"
                 /\ callers'[c].res \in {"v1", "v2"}
                 /\ k \in DOMAIN cache'
                 /\ cache'[k] = [data |-> callers'[c].res, timestamp |-> clock,
                                 refreshing |-> FALSE]
                 /\ \A x \in DOMAIN cache' \ {k} : x \in DOMAIN cache /\ cache'[x] = cache[x]
                 /\ fetches' = fetches

C20_ColdKey == [][C20_ColdStep]_vars

\* one caller's cold fetch raised and its key has no entry; another
\* caller's cold fetch returned later and its entry is stored as of now
C20_Witness ==
  \E c, d \in Callers :
    /\ callers[c].how = "raised" /\ callers[c].pc = "idle"
    /\ callers[c].key \notin DOMAIN cache
    /\ callers[d].how = "miss" /\ callers[d].pc = "idle"
    /\ callers[d].key \in DOMAIN cache
    /\ cache[callers[d].key] =
         [data |-> callers[d].res, timestamp |-> clock, refreshing |-> FALSE]
    /\ clock > 0


\* C24: the step in which a refresh thread leaves its lock.  After a fetch
\* that returned, the entry of the key is (the payload fetched, the time of
\* storing, refreshing = FALSE); after a fetch that raised, payload and
\* timestamp of the entry are as before and refreshing is FALSE.  Other
\* keys are untouched.  A lookup of a stale entry whose flag is FALSE then
\* returns the stale payload and starts a refresh thread for the key.
C24_OthersKept(k) ==
  /\ DOMAIN cache' = DOMAIN cache \cup {k}
  /\ \A x \in DOMAIN cache \ {k} : cache'[x] = cache[x]

C24_OutcomeStep ==
  (lock.holder.kind = "thread" /\ lock'.holder.kind = "none") =>
     /\ lock.op = "set" =>
          /\ cache'[lock.key] = [data |-> lock.data, timestamp |-> clock, refreshing |-> FALSE]
          /\ C24_OthersKept(lock.key)
     /\ lock.op = "clear" =>
          /\ lock.key \in DOMAIN cache
          /\ cache'[lock.key].data = cache[lock.key].data
          /\ cache'[lock.key].timestamp = cache[lock.key].timestamp
          /\ cache'[lock.key].refreshing = FALSE
          /\ C24_OthersKept(lock.key)

C24_RetryStep ==
  \A c \in Callers :
    (/\ lock.holder = [kind |-> "caller", id |-> c] /\ lock.op = "get"
     /\ lock'.holder.kind = "none"
     /\ lock.key \in DOMAIN cache
     /\ clock - cache[lock.key].timestamp >= 300
     /\ ~cache[lock.key].refreshing)
    => /\ callers'[c].n = callers[c].n + 1
       /\ callers'[c].res = cache[lock.key].data
       /\ cache'[lock.key] = [cache[lock.key] EXCEPT !.refreshing = TRUE]
       /\ \E r \in refreshers' \ refreshers :
            /\ r.key = lock.key
            /\ refreshers' = refreshers \cup {r}

C24_RefreshOutcome == [][C24_OutcomeStep /\ C24_RetryStep]_vars

\* the only refresh thread so far has failed (the entry still carries the
\* timestamp of the cold fetch) and a lookup after it has started the second
C24_Witness ==
  \E k \in DOMAIN cache :
    /\ clock - cache[k].timestamp >= 300 /\ cache[k].timestamp < 300
    /\ cache[k].refreshing
    /\ refreshers = {[id |-> 2, key |-> k]}
    /\ lock.holder.kind = "none"
    /\ \E c \in Callers : callers[c].how = "stale" /\ callers[c].res = cache[k].data


\* C25: lock discipline.  Every step that changes the entry map or a
\* refreshing flag, and every step in which a lookup is answered from the
\* map or found to miss, is made by the holder of the lock, which releases
\* it in that step; a caller whose fetch is executing does not hold the
\* lock, and a refresh thread holds it only after its fetch has ended.
C25_AccessStep ==
  /\ cache' # cache => (lock.holder.kind # "none" /\ lock'.holder.kind = "none")
  /\ \A c \in Callers :
       (callers[c].pc = "in-get" /\ callers'[c].pc # "in-get")
          => (lock.holder = [kind |-> "caller", id |-> c] /\ lock'.holder.kind = "none")

C25_NotAcrossFetch ==
  /\ \A c \in Callers :
       callers[c].pc = "fetching" => lock.holder # [kind |-> "caller", id |-> c]
  /\ lock.holder.kind = "caller" => callers[lock.holder.id].pc \in {"in-get", "in-set"}
  /\ lock.holder.kind = "thread" =>
       /\ lock.op \in {"set", "clear"}
       /\ \E r \in refreshers : r.id = lock.holder.id /\ r.key = lock.key

C25_LockDiscipline == []C25_NotAcrossFetch /\ [][C25_AccessStep]_vars

\* one caller's fetch and a refresh thread's fetch are executing while the
\* other caller holds the lock for a lookup
C25_Witness ==
  \E c, d \in Callers :
    /\ callers[c].pc = "fetching"
    /\ lock.holder = [kind |-> "caller", id |-> d] /\ lock.op = "get"
    /\ refreshers # {}


\* C26: refresh liveness.  Whenever the refreshing flag of a key is TRUE it
\* becomes FALSE again, given that a started thread runs, that its fetch
\* ends (every HTTP call of the fetch has a 20 s timeout, and a timeout
\* raises) and that a flow inside a lock body leaves it.
C26_Flagged(k) == k \in DOMAIN cache /\ cache[k].refreshing

C26_RefreshLiveness == \A k \in Keys : C26_Flagged(k) ~> ~C26_Flagged(k)

\* both threads of the run have been started and have ended, one for each
\* of two flags set, and no flag is left set
C26_Witness ==
  /\ nextThread = 3 /\ refreshers = {}
  /\ DOMAIN cache # {}
  /\ \A k \in DOMAIN cache : ~cache[k].refreshing


\* C27: the entry map is the only service state that concurrent flows
\* change: a fetch that looks up a KA tile reads the tile list it stored
\* itself, whatever the other flow's fetch does meanwhile.
C27_OnlyLockProtected ==
  \A f \in Flows :
     fetchers[f].pc = "enriched" => fetchers[f].read = fetchers[f].wrote

\* the refresh thread's fetch cleared _ka_tiles_cache between the request
\* path's None test and its loop over the list
C27_Witness ==
  /\ fetchers["request"].pc = "enriched"
  /\ fetchers["request"].wrote \in {"tiles-1", "tiles-2"}
  /\ fetchers["request"].read = "None"
  /\ fetchers["refresh"].pc = "idle" /\ fetchers["refresh"].runs = 1



\* another caller's cold fetch of key k is under way
C36_OtherFetching(c, k) ==
  \E d \in Callers \ {c} : callers[d].pc = "fetching" /\ callers[d].key = k

C36_ColdStep ==
  \A c \in Callers, k \in Keys :
    /\ (CallStarts(c, k) /\ k \notin DOMAIN cache /\ C36_OtherFetching(c, k))
         => /\ callers'[c].pc = "fetching" /\ callers'[c].key = k
            /\ fetches'[k] = fetches[k] + 1
    /\ (callers[c].pc = "fetching" /\ callers[c].key = k /\ CallEnds(c)
          /\ callers'[c].how = "miss")
         => /\ k \in DOMAIN cache'
            /\ cache'[k] = [data |-> callers'[c].res, timestamp |-> clock, refreshing |-> FALSE]

\* C36: callers that find no entry for a key while another caller's fetch
\* of that key is under way start a fetch of their own; each stores its
\* result when its fetch returns, so the entry holds the payload of the
\* caller that stored last, with refreshing = false.
C36_NoSingleFlight == [][C36_ColdStep]_vars

\* both callers missed the same key on their first call and fetched it;
\* the entry holds what the second one stored
C36_Witness ==
  /\ callers[1].how = "miss" /\ callers[2].how = "miss"
  /\ callers[1].n = 1 /\ callers[2].n = 1
  /\ callers[1].key = "mas-a" /\ callers[2].key = "mas-a"
  /\ callers[1].res = "v1" /\ callers[2].res = "v2"
  /\ fetches["mas-a"] = 2
  /\ "mas-a" \in DOMAIN cache
  /\ cache["mas-a"].data = "v2" /\ ~cache["mas-a"].refreshing

(***************************************************************************)
(* Invocation Bridge: invoke_endpoint / stream_and_store (routers/agent.py)*)
(* and DatabricksEndpointHandler.predict_stream                            *)
(* (services/agents/handlers/databricks_endpoint.py).                      *)
(* One invocation at a time.  A frame is one SSE line; its body is either  *)
(* the text of a JSON document or the literal [DONE].                      *)
(***************************************************************************)
\* invocations in one run
MaxInvokes == 2
\* items the inference iterator yields in one invocation
MaxItems == 2

\* agent ids of requests: a configured agent, an unknown id, and a
\* configured agent without endpoint_name
Agents == {"mas-a", "unknown", "no-endpoint"}

\* options.messages
RequestMessages == {<<>>, <<[role |-> "user", content |-> Text(TITLE_LEN + 1)]>>}

\* options.chat_id: 0 stands for None
ChatRefs == {0} \cup Ids

NoDb == ""
TraceIds == {"t1", "t2", "t3"}

\* databricks_output.get('trace', {}).get('info', {}).get('trace_id')
TraceOf(db) == IF db \in TraceIds THEN db ELSE ""

\* values of the arguments / output field of an item: a str (holding JSON
\* text of an object or not), an object, or no such key in the item
JsonText(name) == [kind |-> "str", parses |-> TRUE, value |-> name]

PlainText(name) == [kind |-> "str", parses |-> FALSE, value |-> name]

Object(name) == [kind |-> "dict", parses |-> FALSE, value |-> name]

Missing == [kind |-> "missing", parses |-> FALSE, value |-> ""]

\* dict.get(key, {})
GetOrEmpty(value) == IF value = Missing THEN Object("") ELSE value

\* json.loads of a str that starts an object and parses, else the value itself
ParseJsonField(value) ==
  IF value.kind = "str" /\ value.parses THEN Object(value.value) ELSE value

NoItem ==
  [type |-> "", content |-> <<>>, call_id |-> "", name |-> "",
   arguments |-> Missing, output |-> Missing, db |-> NoDb]

Hi == <<"h", "i">>

\* events of the inference stream, as the MLflow client yields them
EvDelta == [type |-> "response.output_text.delta", item |-> NoItem, db |-> NoDb, response_db |-> NoDb]

EvMessage ==
  [type |-> "response.output_item.done",
   item |-> [NoItem EXCEPT !.type = "message",
                             !.content = <<[type |-> "output_text", text |-> Hi]>>,
                             !.db = "t1"],
   db |-> NoDb, response_db |-> NoDb]

EvCall ==
  [type |-> "response.output_item.done",
   item |-> [NoItem EXCEPT !.type = "function_call", !.call_id = "c1", !.name = "f",
                             !.arguments = JsonText("args")],
   db |-> NoDb, response_db |-> NoDb]

EvOutput ==
  [type |-> "response.output_item.done",
   item |-> [NoItem EXCEPT !.type = "function_call_output", !.call_id = "c1",
                             !.output = PlainText("out")],
   db |-> NoDb, response_db |-> NoDb]

EvDone == [type |-> "response.done", item |-> NoItem, db |-> NoDb, response_db |-> "t2"]

Events == {EvDelta, EvMessage, EvCall, EvOutput, EvDone}

\* further event shapes the extractor accepts: a second call id with the
\* arguments in object form and the output as JSON text, an output item with
\* neither call id nor output, and databricks_output at the event level
\* with and without a trace id
EvCallOther ==
  [type |-> "response.output_item.done",
   item |-> [NoItem EXCEPT !.type = "function_call", !.call_id = "c2", !.name = "g",
                             !.arguments = Object("args2")],
   db |-> NoDb, response_db |-> NoDb]

EvOutputOther ==
  [type |-> "response.output_item.done",
   item |-> [NoItem EXCEPT !.type = "function_call_output", !.call_id = "c2",
                             !.output = JsonText("out2")],
   db |-> NoDb, response_db |-> NoDb]

EvOutputBare ==
  [type |-> "response.output_item.done",
   item |-> [NoItem EXCEPT !.type = "function_call_output"],
   db |-> NoDb, response_db |-> NoDb]

EvEventDb == [type |-> "response.output_text.delta", item |-> NoItem, db |-> "t3", response_db |-> NoDb]

EvNoTrace == [type |-> "response.output_text.delta", item |-> NoItem, db |-> "no-trace", response_db |-> NoDb]

EvDoneBoth == [type |-> "response.done", item |-> NoItem, db |-> "t1", response_db |-> "t2"]

Yo == <<"y", "o">>

\* a message item whose first content block is not text and which has two
\* text blocks, and a message item with no text block at all
EvMessageOther ==
  [type |-> "response.output_item.done",
   item |-> [NoItem EXCEPT !.type = "message",
                             !.content = <<[type |-> "refusal", text |-> Hi],
                                           [type |-> "output_text", text |-> Yo],
                                           [type |-> "output_text", text |-> Hi]>>],
   db |-> NoDb, response_db |-> NoDb]

EvMessageNoText ==
  [type |-> "response.output_item.done",
   item |-> [NoItem EXCEPT !.type = "message",
                             !.content = <<[type |-> "refusal", text |-> Yo]>>],
   db |-> NoDb, response_db |-> NoDb]

ExtractorEvents ==
  Events \cup {EvCallOther, EvOutputOther, EvOutputBare, EvEventDb, EvNoTrace, EvDoneBoth,
               EvMessageOther, EvMessageNoText}

MaxFeed == 4

\* what a step of the inference iterator does: it yields an item, is
\* exhausted, or raises
IteratorSteps(n) ==
  (IF n < MaxItems THEN [kind : {"item"}, item : Events] ELSE {})
    \cup {[kind |-> "exhausted", item |-> EvDelta], [kind |-> "raises", item |-> EvDelta]}

NoRequest == [owner |-> "", agent_id |-> "", chat_id |-> 0, messages |-> <<>>]

\* final_text, function_calls, trace_id, databricks_output
NoAcc == [final_text |-> <<>>, function_calls |-> <<>>, trace_id |-> "", databricks_output |-> NoDb]

\* json.dumps / json.loads
JsonDumps(value) == [json |-> value]

JsonLoads(body) == body.json

\* f'data: {body}\n\n'
DataFrame(body) == [prefix |-> "data: ", body |-> body, suffix |-> "\n\n"]

ChatCreatedFrameNoId(id) ==
  DataFrame(JsonDumps([type |-> "chat.created", chat_id |-> 0]))

ChatCreatedFrame(id) ==
  DataFrame(JsonDumps([type |-> "chat.created", chat_id |-> id]))

ChunkFrame(data) == DataFrame(JsonDumps(data))

ErrorFrameDropped(error) == DataFrame([text |-> "[DONE]"])

ErrorFrame(error) == DataFrame(JsonDumps([type |-> "error", error |-> error]))

DoneFrame == DataFrame([text |-> "[DONE]"])

\* title of a chat created by invoke_endpoint
InvokeTitle(messages) ==
  LET user_content == IF messages = <<>> THEN <<>> ELSE messages[Len(messages)].content
  IN  IF user_content = <<>>
      THEN NewChat
      ELSE Slice(user_content, TITLE_LEN)
             \o (IF Len(user_content) > TITLE_LEN THEN Ellipsis ELSE <<>>)

LatchTraceLast(acc, db) ==
  IF db # NoDb
  THEN [acc EXCEPT !.databricks_output = db, !.trace_id = TraceOf(db)]
  ELSE acc

\* if db_output and not trace_id: databricks_output = db_output, and the
\* trace id is latched when the output carries one
LatchTrace(acc, db) ==
  IF db # NoDb /\ acc.trace_id = ""
  THEN [acc EXCEPT !.databricks_output = db, !.trace_id = TraceOf(db)]
  ELSE acc

LastOutputText(content, otherwise) ==
  LET hits == {i \in 1..Len(content) : content[i].type = "output_text"}
  IN  IF hits = {}
      THEN otherwise
      ELSE content[CHOOSE i \in hits : \A j \in hits : i >= j].text

\* the text of the first content item of type output_text
FirstOutputText(content, otherwise) ==
  LET hits == {i \in 1..Len(content) : content[i].type = "output_text"}
  IN  IF hits = {}
      THEN otherwise
      ELSE content[CHOOSE i \in hits : \A j \in hits : i <= j].text

AttachOutputLast(function_calls, call_id, output) ==
  LET hits == {i \in 1..Len(function_calls) : function_calls[i].call_id = call_id}
  IN  IF hits = {}
      THEN function_calls
      ELSE [function_calls EXCEPT ![CHOOSE i \in hits : \A j \in hits : i >= j].output = output]

AttachOutputAny(function_calls, call_id, output) ==
  [i \in 1..Len(function_calls) |-> [function_calls[i] EXCEPT !.output = output]]

\* fc['output'] = ... on the first function call with the call id
AttachOutput(function_calls, call_id, output) ==
  LET hits == {i \in 1..Len(function_calls) : function_calls[i].call_id = call_id}
  IN  IF hits = {}
      THEN function_calls
      ELSE [function_calls EXCEPT ![CHOOSE i \in hits : \A j \in hits : i <= j].output = output]

\* the item of a response.output_item.done event
ExtractItem(acc, item) ==
  LET a == CASE item.type = "message" ->
                  [acc EXCEPT !.final_text = FirstOutputText(item.content, acc.final_text)]
             [] item.type = "function_call" ->
                  [acc EXCEPT !.function_calls =
                     Append(@, [call_id |-> item.call_id, name |-> item.name,
                                arguments |-> ParseJsonField(GetOrEmpty(item.arguments)),
                                output |-> Missing])]
             [] item.type = "function_call_output" ->
                  [acc EXCEPT !.function_calls =
                     AttachOutput(@, item.call_id, ParseJsonField(GetOrEmpty(item.output)))]
             [] OTHER -> acc
  IN  LatchTrace(a, item.db)

\* one parsed event of the stream
Extract(acc, event) ==
  LET a == LatchTrace(acc, IF "db" \in DOMAIN event THEN event.db ELSE NoDb)
      type == IF "type" \in DOMAIN event THEN event.type ELSE ""
  IN  CASE type = "response.output_item.done" -> ExtractItem(a, event.item)
        [] type = "response.done" -> LatchTrace(a, event.response_db)
        [] OTHER -> a

QueuePutFront(q, msg) == <<msg>> \o q

\* queue.put_nowait, and the FIFO of the loop's ready callbacks
QueuePut(q, msg) == Append(q, msg)

BridgeInit ==
  /\ req = NoRequest
  /\ resp = "none"
  /\ chatId = 0
  /\ taken = <<>>
  /\ ended = ""
  /\ ppc = "idle"
  /\ ready = <<>>
  /\ queue = <<>>
  /\ cpc = "idle"
  /\ held = <<>>
  /\ frames = <<>>
  /\ collected = NoAcc
  /\ invokes = 0

RejectedAsStream(r) ==
  /\ req' = r
  /\ resp' = "stream"
  /\ chatId' = 0
  /\ cpc' = "start"

\* a request that ends before the stream: a structured error response
Rejected(r) ==
  /\ req' = r
  /\ resp' = "error"
  /\ chatId' = 0
  /\ cpc' = "idle"

\* a request whose session is resolved: StreamingResponse(stream_and_store())
Accepted(r, id) ==
  /\ req' = r
  /\ resp' = "stream"
  /\ chatId' = id
  /\ cpc' = "start"

\* invoke_endpoint up to its return
InvokeEndpoint(o, agent_id, ref, messages) ==
  LET r == [owner |-> o, agent_id |-> agent_id, chat_id |-> ref, messages |-> messages]
  IN  /\ cpc \in {"idle", "finished", "save-failed", "closed"}
      /\ ppc \in {"idle", "finished"}
      /\ invokes < MaxInvokes
      /\ invokes' = invokes + 1
      /\ ppc' = "idle" /\ taken' = <<>> /\ ended' = "" /\ ready' = <<>> /\ queue' = <<>>
      /\ held' = <<>> /\ frames' = <<>> /\ collected' = NoAcc
      /\ IF agent_id # "mas-a"
         THEN \* agent not found, or no endpoint_name
              /\ Rejected(r)
              /\ UNCHANGED storeVars
         ELSE IF ref = 0
         THEN \* no chat_id: create the chat
              /\ CreateCall(o, InvokeTitle(messages))
              /\ Accepted(r, nextId)
              /\ UNCHANGED calls
         ELSE \* verify the chat exists
              /\ GetCall(o, ref)
              /\ UNCHANGED calls
              /\ \E found \in {last'.memRes # {}, last'.pgRes # {}} :
                   IF found THEN Accepted(r, ref) ELSE Rejected(r)
      /\ UNCHANGED <<cacheVars, singletonVars>>

\* stream_and_store starts: the chat.created frame is yielded
EmitChatCreated ==
  /\ cpc = "start"
  /\ frames' = <<ChatCreatedFrame(chatId)>>
  /\ cpc' = "created"
  /\ UNCHANGED <<req, resp, chatId, taken, ended, ppc, ready, queue, held, collected, invokes>>
  /\ UNCHANGED <<storeVars, cacheVars, singletonVars>>

\* stream_and_store resumes: predict_stream runs up to its first await; the
\* producer thread is handed to the executor, or get_deploy_client raises
\* and stream_and_store yields an error frame
OpenStream ==
  /\ cpc = "created"
  /\ \E client \in {"ok", "raises"} :
       IF client = "raises"
       THEN /\ frames' = Append(frames, ErrorFrame("client"))
            /\ cpc' = "drained"
            /\ UNCHANGED ppc
       ELSE /\ ppc' = "running"
            /\ cpc' = "waiting"
            /\ UNCHANGED frames
  /\ UNCHANGED <<req, resp, chatId, taken, ended, ready, queue, held, collected, invokes>>
  /\ UNCHANGED <<storeVars, cacheVars, singletonVars>>

\* consume_sync_generator, one step of the producer thread: the next item of
\* the iterator, its exhaustion, or its exception, is scheduled on the loop
ProducerStep ==
  /\ ppc = "running"
  /\ \E step \in IteratorSteps(Len(taken)) :
       CASE step.kind = "item" ->
              /\ taken' = Append(taken, step.item)
              /\ ready' = QueuePut(ready, [msg_type |-> "chunk", data |-> step.item])
              /\ UNCHANGED <<ppc, ended>>
         [] step.kind = "exhausted" ->
              /\ ready' = QueuePut(ready, [msg_type |-> "done", data |-> "None"])
              /\ ppc' = "finished"
              /\ ended' = "exhausted"
              /\ UNCHANGED taken
         [] step.kind = "raises" ->
              /\ ready' = QueuePut(ready, [msg_type |-> "error", data |-> "inference"])
              /\ ppc' = "finished"
              /\ ended' = "raised"
              /\ UNCHANGED taken
  /\ UNCHANGED <<req, resp, chatId, queue, cpc, held, frames, collected, invokes>>
  /\ UNCHANGED <<storeVars, cacheVars, singletonVars>>

\* the event loop runs the oldest scheduled callback: queue.put_nowait
RunCallback ==
  /\ ready # <<>>
  /\ queue' = QueuePut(queue, Head(ready))
  /\ ready' = Tail(ready)
  /\ UNCHANGED <<req, resp, chatId, taken, ended, ppc, cpc, held, frames, collected, invokes>>
  /\ UNCHANGED <<storeVars, cacheVars, singletonVars>>

\* await queue.get() returns; predict_stream yields a frame and
\* stream_and_store forwards it
QueueGet ==
  /\ cpc = "waiting"
  /\ queue # <<>>
  /\ queue' = Tail(queue)
  /\ LET msg == Head(queue)
     IN  CASE msg.msg_type = "chunk" ->
                /\ frames' = Append(frames, ChunkFrame(msg.data))
                /\ held' = <<ChunkFrame(msg.data)>>
                /\ cpc' = "forwarded"
           [] msg.msg_type = "error" ->
                /\ frames' = Append(frames, ErrorFrame(msg.data))
                /\ held' = <<>>
                /\ cpc' = "error"
           [] msg.msg_type = "done" ->
                /\ frames' = Append(frames, DoneFrame)
                /\ held' = <<>>
                /\ cpc' = "drained"
  /\ UNCHANGED <<req, resp, chatId, taken, ended, ppc, ready, collected, invokes>>
  /\ UNCHANGED <<storeVars, cacheVars, singletonVars>>

\* stream_and_store resumes after forwarding a chunk: the frame is parsed
\* and the event collected
CollectChunk ==
  /\ cpc = "forwarded"
  /\ collected' = Extract(collected, JsonLoads(held[1].body))
  /\ held' = <<>>
  /\ cpc' = "waiting"
  /\ UNCHANGED <<req, resp, chatId, taken, ended, ppc, ready, queue, frames, invokes>>
  /\ UNCHANGED <<storeVars, cacheVars, singletonVars>>

\* predict_stream resumes after the error frame: [DONE], break
EmitDoneAfterError ==
  /\ cpc = "error"
  /\ frames' = Append(frames, DoneFrame)
  /\ cpc' = "drained"
  /\ UNCHANGED <<req, resp, chatId, taken, ended, ppc, ready, queue, held, collected, invokes>>
  /\ UNCHANGED <<storeVars, cacheVars, singletonVars>>

\* the HTTP caller disconnects while stream_and_store is suspended at a
\* yield or at queue.get(): the generator is closed (GeneratorExit) or
\* cancelled (CancelledError) there.  Neither is an Exception, so no except
\* clause of predict_stream or stream_and_store runs, and the generator
\* ends without reaching the statements after its try block.  The producer
\* thread is not told.
Disconnect ==
  /\ cpc \in {"created", "waiting", "forwarded", "error", "drained"}
  /\ cpc' = "closed"
  /\ held' = <<>>
  /\ UNCHANGED <<req, resp, chatId, taken, ended, ppc, ready, queue, frames, collected, invokes>>
  /\ UNCHANGED <<storeVars, cacheVars, singletonVars>>

SaveUserMessageEarly ==
  /\ cpc = "created"
  /\ req.messages # <<>>
  /\ AddMessageCall(req.owner, chatId, req.messages[Len(req.messages)])
  /\ UNCHANGED calls
  /\ cpc' = "user-saved"
  /\ UNCHANGED <<req, resp, chatId, taken, ended, ppc, ready, queue, held, frames, collected,
                 invokes>>
  /\ UNCHANGED <<cacheVars, singletonVars>>

\* except Exception as e: logger.error('Failed to save messages to
\* storage'), after which the generator returns; nothing is yielded
FramesOnSaveErrorReported(sent) == Append(sent, ErrorFrame("storage"))

FramesOnSaveError(sent) == sent

\* after the stream: the user message is saved, or add_message raises (the
\* database is unreachable, the transaction is rolled back) and the except
\* clause around the persistence block ends the generator
SaveUserMessage ==
  /\ cpc = "drained"
  /\ \/ /\ IF req.messages # <<>>
           THEN /\ AddMessageCall(req.owner, chatId, req.messages[Len(req.messages)])
                /\ UNCHANGED calls
           ELSE UNCHANGED storeVars
        /\ cpc' = "user-saved"
        /\ frames' = frames
     \/ /\ req.messages # <<>>
        /\ UNCHANGED storeVars
        /\ cpc' = "save-failed"
        /\ frames' = FramesOnSaveError(frames)
  /\ UNCHANGED <<req, resp, chatId, taken, ended, ppc, ready, queue, held, collected, invokes>>
  /\ UNCHANGED <<cacheVars, singletonVars>>

SaveAssistantMessageAlways ==
  /\ cpc = "user-saved"
  /\ AddMessageCall(req.owner, chatId, [role |-> "assistant", content |-> collected.final_text])
  /\ UNCHANGED calls
  /\ cpc' = "finished"
  /\ UNCHANGED <<req, resp, chatId, taken, ended, ppc, ready, queue, held, frames, collected,
                 invokes>>
  /\ UNCHANGED <<cacheVars, singletonVars>>

\* then the assistant message, if any text or function call was collected
SaveAssistantMessage ==
  /\ cpc = "user-saved"
  /\ \/ /\ IF collected.final_text # <<>> \/ collected.function_calls # <<>>
           THEN /\ AddMessageCall(req.owner, chatId,
                                  [role |-> "assistant", content |-> collected.final_text])
                /\ UNCHANGED calls
           ELSE UNCHANGED storeVars
        /\ cpc' = "finished"
        /\ frames' = frames
     \/ /\ collected.final_text # <<>> \/ collected.function_calls # <<>>
        /\ UNCHANGED storeVars
        /\ cpc' = "save-failed"
        /\ frames' = FramesOnSaveError(frames)
  /\ UNCHANGED <<req, resp, chatId, taken, ended, ppc, ready, queue, held, collected, invokes>>
  /\ UNCHANGED <<cacheVars, singletonVars>>

BridgeNext ==
  \/ \E o \in Owners, agent_id \in Agents, ref \in ChatRefs, messages \in RequestMessages :
       InvokeEndpoint(o, agent_id, ref, messages)
  \/ EmitChatCreated
  \/ OpenStream
  \/ ProducerStep
  \/ RunCallback
  \/ QueueGet
  \/ CollectChunk
  \/ EmitDoneAfterError
  \/ Disconnect
  \/ SaveUserMessage
  \/ SaveAssistantMessage

\* one request from the empty stores: invoke_endpoint resets everything a
\* stream works on, so every stream runs as the first one does
FirstInvoke ==
  /\ invokes = 0
  /\ \E o \in Owners, agent_id \in Agents, ref \in ChatRefs, messages \in RequestMessages :
       InvokeEndpoint(o, agent_id, ref, messages)

StreamNext ==
  \/ FirstInvoke
  \/ EmitChatCreated
  \/ OpenStream
  \/ ProducerStep
  \/ RunCallback
  \/ QueueGet
  \/ CollectChunk
  \/ EmitDoneAfterError
  \/ Disconnect
  \/ SaveUserMessage
  \/ SaveAssistantMessage

\* stream_and_store is suspended between its chat.created frame and its
\* persistence block.  The other requests touch the stores alone and the
\* steps of the stream do not touch them, so it is enough to serve them
\* when the stream has drained, right before the persistence block, in the
\* last invocation of a run.
MidStream ==
  /\ resp = "stream" /\ invokes = MaxInvokes
  /\ cpc = "drained"

\* requests of the same owner that the event loop serves meanwhile: delete
\* of the invocation's session, clearAll, and create
DeleteMidStream == MidStream /\ Delete(req.owner, chatId)

ClearAllMidStream == MidStream /\ ClearAll(req.owner)

CreateMidStream == MidStream /\ Create(req.owner, NewChat)

\* the invocation, with the owner's other requests (delete, clearAll,
\* create) served by the event loop while the stream is suspended
LostNext ==
  \/ \E o \in Owners, agent_id \in Agents, ref \in ChatRefs, messages \in RequestMessages :
       InvokeEndpoint(o, agent_id, ref, messages)
  \/ EmitChatCreated
  \/ OpenStream
  \/ ProducerStep
  \/ RunCallback
  \/ QueueGet
  \/ CollectChunk
  \/ EmitDoneAfterError
  \/ SaveUserMessage
  \/ SaveAssistantMessage
  \/ DeleteMidStream
  \/ ClearAllMidStream
  \/ CreateMidStream

(***************************************************************************)
(* Invocation Bridge: properties                                           *)
(***************************************************************************)
\* the frames as the caller reads them
SseData(json) == [prefix |-> "data: ", body |-> [json |-> json], suffix |-> "\n\n"]
SseDone == [prefix |-> "data: ", body |-> [text |-> "[DONE]"], suffix |-> "\n\n"]
SseError == {SseData([type |-> "error", error |-> e]) : e \in {"inference", "client"}}

\* the stream has been consumed to its end
StreamEnded == resp = "stream" /\ cpc \in {"drained", "user-saved", "finished", "save-failed"}

\* the step that emits the first frame of a stream: the frame is chat.created
\* with the supplied chat id, or with the id of the chat the invocation has
\* just created for its owner, and the producer thread has not been started
C9_FirstFrameStep ==
  (frames = <<>> /\ frames' # <<>>) =>
    /\ frames' = <<SseData([type |-> "chat.created",
                            chat_id |-> IF req.chat_id # 0 THEN req.chat_id ELSE last.id])>>
    /\ req.chat_id = 0 => (last.op = "create" /\ last.owner = req.owner)
    /\ ppc = "idle" /\ ppc' = "idle"
    /\ taken = <<>> /\ ready = <<>> /\ queue = <<>>

\* within one invocation the first frame stays the first frame
C9_FirstFrameStays ==
  (frames # <<>> /\ frames' # <<>>) => frames'[1] = frames[1]

\* the inference call is opened, and a stream ends, only after the first frame
C9_CreatedBeforeInference ==
  /\ (ppc # "idle" \/ taken # <<>>) => frames # <<>>
  /\ StreamEnded => frames # <<>>

\* C9: the first frame of every invocation stream is the chat.created frame
\* carrying the resolved session id; it is emitted before the inference
\* call is opened, hence also when the inference call produces nothing or
\* fails.
C9_ChatCreatedFirst ==
  [][C9_FirstFrameStep /\ C9_FirstFrameStays]_vars /\ []C9_CreatedBeforeInference

\* a stream whose inference call raised before its first item has ended:
\* chat.created, the error frame, [DONE]
C9_Witness ==
  /\ StreamEnded
  /\ taken = <<>>
  /\ frames = <<SseData([type |-> "chat.created", chat_id |-> chatId]),
                SseData([type |-> "error", error |-> "inference"]),
                SseDone>>

\* the chunk messages on their way from the producer to the consumer, oldest first
InTransit == SelectSeq(queue \o ready, LAMBDA m : m.msg_type = "chunk")

\* C10: within one invocation the chunk frames emitted are the items the
\* producer thread obtained from the inference iterator, in the same order,
\* none lost, duplicated or reordered, in every interleaving of producer and
\* consumer: the frames after chat.created are the chunk frames of the
\* first k items obtained, the remaining items are in transit in their
\* order, only error and [DONE] frames follow the chunk frames, and a
\* stream that has ended has emitted every item obtained.
C10_OrderPreserved ==
  LET k == Len(taken) - Len(InTransit)
  IN  resp = "stream" =>
        /\ k >= 0
        /\ k > 0 => Len(frames) >= k + 1
        /\ \A i \in 1..k : frames[i + 1] = SseData(taken[i])
        /\ \A j \in 1..Len(InTransit) : InTransit[j].data = taken[k + j]
        /\ \A i \in (k + 2)..Len(frames) : frames[i] \in SseError \cup {SseDone}
        /\ StreamEnded => k = Len(taken)

\* the producer has run two items ahead and finished; the consumer has
\* emitted the first of two different items and the second is still in
\* transit
C10_Witness ==
  /\ Len(taken) = 2 /\ taken[1] # taken[2]
  /\ ppc = "finished"
  /\ frames = <<SseData([type |-> "chat.created", chat_id |-> chatId]), SseData(taken[1])>>
  /\ Len(InTransit) = 1

\* the frames of a whole stream over the items obtained, ending with tail
StreamOf(tail) ==
  <<SseData([type |-> "chat.created", chat_id |-> chatId])>>
    \o [i \in 1..Len(taken) |-> SseData(taken[i])] \o tail

IsPrefix(s, t) == Len(s) <= Len(t) /\ \A i \in 1..Len(s) : s[i] = t[i]

\* the positions of the consumer; none of them is an exception leaving the
\* generator ("closed" is the generator closed by its caller, "save-failed"
\* the generator returned from the except clause of its persistence block)
ConsumerPositions ==
  {"idle", "start", "created", "waiting", "forwarded", "error", "drained", "user-saved",
   "finished", "save-failed", "closed"}

\* C11: when the inference iterator raises, before the first item or after
\* any number of items, the stream emits chat.created, the frames of the
\* items already produced, then exactly one error frame, then [DONE]; at
\* every moment the frames emitted are a prefix of that sequence, the
\* ended stream is that sequence, and the consumer is never left by an
\* exception.
C11_ErrorsAreData ==
  /\ cpc \in ConsumerPositions
  /\ (resp = "stream" /\ ended = "raised") =>
       LET whole == StreamOf(<<SseData([type |-> "error", error |-> "inference"]), SseDone>>)
       IN  /\ IsPrefix(frames, whole)
           /\ StreamEnded => frames = whole

\* the iterator raised after one item and the stream has ended and been
\* persisted: chat.created, the item's frame, the error frame, [DONE]
C11_Witness ==
  /\ ended = "raised" /\ Len(taken) = 1
  /\ cpc = "finished"
  /\ Len(frames) = 4
  /\ frames[3] = SseData([type |-> "error", error |-> "inference"])
  /\ frames[4] = SseDone

\* the positions of frames holding [DONE]
DonePositions == {i \in 1..Len(frames) : frames[i] = SseDone}

\* C12: every stream that has begun and is consumed to its end has [DONE]
\* as its last frame, emitted exactly once, on every path: normal
\* completion, a producer error, and an exception raised while opening or
\* iterating the handler stream.
C12_DoneLastOnce ==
  StreamEnded => DonePositions = {Len(frames)}

\* the same for the streams whose handler stream was opened: the producer
\* thread ran
C12_DoneLastOnceWhenOpened ==
  (StreamEnded /\ ppc # "idle") => DonePositions = {Len(frames)}

\* get_deploy_client raised while the handler stream was opened: the stream
\* has ended with the error frame as its last frame and without [DONE]
C12_Witness ==
  /\ StreamEnded
  /\ frames = <<SseData([type |-> "chat.created", chat_id |-> chatId]),
                SseData([type |-> "error", error |-> "client"])>>

\* the step is an append to the Session Store
IsAppend == last'.op = "append" /\ (last' # last \/ mem' # mem \/ pgMessages' # pgMessages)

\* the messages the owner's chat holds in the in-memory store
MemMessages(o, id) ==
  IF MemHeld(mem, o, id) = {} THEN <<>> ELSE (CHOOSE c \in MemHeld(mem, o, id) : TRUE).messages

C13_AppendStep ==
  IsAppend =>
    /\ StreamEnded
    /\ ppc \in {"idle", "finished"} /\ ready = <<>> /\ queue = <<>>
    /\ last'.owner = req.owner /\ last'.id = chatId
    /\ last'.arg.role = "user" => cpc = "drained"
    /\ last'.arg.role = "assistant" =>
         /\ cpc = "user-saved"
         /\ (req.messages # <<>> /\ last'.memRes) =>
              LET before == MemMessages(req.owner, chatId)
              IN  /\ before # <<>>
                  /\ before[Len(before)].role = "user"
                  /\ before[Len(before)].content = req.messages[Len(req.messages)].content

NoOutputEvents ==
  \A i \in 1..Len(taken) : taken[i].item.type \notin {"message", "function_call"}

\* the Extractor's result has text or a tool call
HasOutput == collected.final_text # <<>> \/ collected.function_calls # <<>>

C14_AssistantStep ==
  /\ (cpc = "user-saved" /\ cpc' = "finished") =>
       /\ NoOutputEvents => ~HasOutput
       /\ ~HasOutput => UNCHANGED <<mem, pgChats, pgMessages, last>>
       /\ HasOutput =>
            /\ last'.op = "append" /\ last'.owner = req.owner /\ last'.id = chatId
            /\ last'.arg.role = "assistant"
            /\ last'.arg.content = collected.final_text
            /\ last'.memRes /\ last'.pgRes
            /\ Len(pgMessages') = Len(pgMessages) + 1
            /\ Len(MemMessages(req.owner, chatId)) + 1
                 = Len((CHOOSE c \in MemHeld(mem', req.owner, chatId) : TRUE).messages)
  /\ (IsAppend /\ last'.arg.role = "assistant") => HasOutput

\* C14: a stream that ends with empty final text and no tool call (a stream
\* of only a trace id, only unrecognized events, or only an error) appends
\* no assistant message; an assistant message, holding the final text, is
\* appended exactly when the final text is non-empty or a tool call was
\* recorded.
C14_NoEmptyAssistant == [][C14_AssistantStep]_vars

\* a stream that carried only a response.done with a trace id has been
\* persisted: the trace id was collected, the chat holds the user message
\* alone
C14_Witness ==
  /\ cpc = "finished"
  /\ Len(taken) = 1 /\ taken[1].type = "response.done"
  /\ collected.trace_id = "t2"
  /\ Len(MemMessages(req.owner, chatId)) = 1
  /\ MemMessages(req.owner, chatId)[1].role = "user"

\* the ids of the sessions an owner holds, in either store
MemIdsOf(store, o) == {store[o][i].id : i \in 1..Len(store[o])}
PgIdsOf(chats, o) == {r.id : r \in PgRows(chats, o)}

\* an invocation without chat_id has returned its stream in this step
StreamOnNewChat == invokes' = invokes + 1 /\ resp' = "stream" /\ req'.chat_id = 0

\* the invocation created exactly one session, new to both stores
C15_NewSessionStep ==
  StreamOnNewChat =>
    LET o == req'.owner
    IN  /\ chatId' \notin MemIdsOf(mem, o) \cup {r.id : r \in pgChats}
        /\ MemIdsOf(mem', o) \ MemIdsOf(mem, o) = {chatId'}
        /\ PgIdsOf(pgChats', o) \ PgIdsOf(pgChats, o) = {chatId'}

\* and no step of the stream adds or removes a session
C15_SameSessionsStep ==
  invokes' = invokes =>
    \A o \in Owners : /\ MemIdsOf(mem', o) = MemIdsOf(mem, o)
                       /\ PgIdsOf(pgChats', o) = PgIdsOf(pgChats, o)

\* the messages of the invocation's session as listAll returns them: in the
\* in-memory store in append order, in PostgreSQL ordered by timestamp
C15_Listed(strict) ==
  LET mm == MemMessages(req.owner, chatId)
      pm == PgMsgs(pgMessages, chatId)
  IN  IF HasOutput
      THEN /\ Len(mm) = 2 /\ mm[1].role = "user" /\ mm[2].role = "assistant"
           /\ Len(pm) = 2
           /\ \E i, j \in 1..2 :
                /\ pm[i].role = "user" /\ pm[j].role = "assistant"
                /\ IF strict THEN pm[i].timestamp < pm[j].timestamp
                             ELSE pm[i].timestamp <= pm[j].timestamp
      ELSE Len(mm) = 1 /\ Len(pm) = 1

C15_Outcome ==
  (resp = "stream" /\ req.chat_id = 0) =>
    /\ frames # <<>> => frames[1] = SseData([type |-> "chat.created", chat_id |-> chatId])
    /\ StreamEnded => \E i \in 1..Len(frames) : frames[i] = SseDone
    /\ cpc = "finished" => C15_Listed(TRUE)

\* C15: invoking an agent with no session id yields a stream whose first
\* frame carries a newly created session id and which emits [DONE] before
\* it ends; after that the owner's listing includes exactly one new
\* session, holding exactly one message if the model produced no output
\* and exactly two, the user message then the assistant message, otherwise.
C15_EndToEnd ==
  [][C15_NewSessionStep /\ C15_SameSessionsStep]_vars /\ []C15_Outcome

\* what holds of it: for a request with a message whose handler stream was
\* opened, with the PostgreSQL order decided by timestamps that may be equal
C15_OutcomeOpened ==
  (resp = "stream" /\ req.chat_id = 0) =>
    /\ frames # <<>> => frames[1] = SseData([type |-> "chat.created", chat_id |-> chatId])
    /\ (StreamEnded /\ ppc # "idle") => \E i \in 1..Len(frames) : frames[i] = SseDone
    /\ (cpc = "finished" /\ req.messages # <<>>) => C15_Listed(FALSE)

C15_EndToEndOpened ==
  [][C15_NewSessionStep /\ C15_SameSessionsStep]_vars /\ []C15_OutcomeOpened

\* an invocation without chat_id whose deployment client could not be
\* opened has ended and been persisted: its new session holds the user
\* message and the stream never carried [DONE]
C15_Witness ==
  /\ resp = "stream" /\ req.chat_id = 0 /\ cpc = "finished"
  /\ ppc = "idle"
  /\ \A i \in 1..Len(frames) : frames[i] # SseDone
  /\ Len(MemMessages(req.owner, chatId)) = 1

(***************************************************************************)
(* C22  Cancellation.  Once the caller has disconnected mid-stream no      *)
(* further frame is emitted, and the user message of the request is        *)
(* persisted in the chat of the stream.                                    *)
(***************************************************************************)
C22_NoFrameAfterClose ==
  [][(cpc = "closed" /\ invokes' = invokes) => (frames' = frames /\ cpc' = "closed")]_vars

\* the last message of the request is among the messages of the chat
C22_UserMessageKept ==
  /\ \E i \in 1..Len(MemMessages(req.owner, chatId)) :
       /\ MemMessages(req.owner, chatId)[i].role = "user"
       /\ MemMessages(req.owner, chatId)[i].content = req.messages[Len(req.messages)].content
  /\ \E i \in 1..Len(PgMsgs(pgMessages, chatId)) :
       /\ PgMsgs(pgMessages, chatId)[i].role = "user"
       /\ PgMsgs(pgMessages, chatId)[i].content = req.messages[Len(req.messages)].content

\* C22 as stated: a stream closed mid-way still has its user message persisted
C22_Cancellation ==
  (cpc = "closed" /\ req.messages # <<>> /\ MemHeld(mem, req.owner, chatId) # {})
     => C22_UserMessageKept

\* the caller disconnected after the frame of a message item had been
\* forwarded and collected; the chat is still held and has no message
C22_Witness ==
  /\ cpc = "closed" /\ req.messages # <<>>
  /\ Len(frames) >= 2
  /\ collected.final_text # <<>>
  /\ MemHeld(mem, req.owner, chatId) # {}
  /\ MemMessages(req.owner, chatId) = <<>>
  /\ PgMsgs(pgMessages, chatId) = <<>>


(***************************************************************************)
(* C23  Bounded hand-off.  The queue between the producer thread and the   *)
(* consumer never holds more items than a fixed capacity.  A capacity can  *)
(* be told from none only if it is smaller than the longest stream, so the *)
(* capacity tried is one less than the MaxItems items of a stream: the     *)
(* producer would have to wait before the last put.                        *)
(***************************************************************************)
C23_Capacity == MaxItems - 1

C23_Chunks == SelectSeq(queue, LAMBDA m : m.msg_type = "chunk")

C23_BoundedHandOff == Len(C23_Chunks) <= C23_Capacity

\* the consumer stopped before its first get and the producer thread ran
\* to its end: every item of the stream is in the queue, with the sentinel
C23_Witness ==
  /\ cpc = "closed" /\ ppc = "finished" /\ ready = <<>>
  /\ Len(taken) = MaxItems
  /\ Len(C23_Chunks) = MaxItems
  /\ Len(queue) = MaxItems + 1


(***************************************************************************)
(* C28  Storage failure after a model error.                               *)
(***************************************************************************)
\* an error frame has been yielded
C28_ErrorDelivered == \E i \in 1..Len(frames) : frames[i] \in SseError

\* what the stores hold
C28_Stored == <<mem, pgChats, pgMessages>>

\* the consumer's step out of the drained stream and out of the saved user
\* message is a Session Store call, which succeeds or raises
C28_AttemptStep ==
  (C28_ErrorDelivered /\ cpc \in {"drained", "user-saved"} /\ cpc' \notin {cpc, "closed"}) =>
    /\ frames' = frames
    /\ resp' = resp
    /\ cpc' \in {"user-saved", "finished", "save-failed"}
    /\ (cpc = "drained" /\ req.messages # <<>> /\ cpc' = "user-saved") =>
         IsAppend /\ last'.arg.role = "user"
    /\ (cpc = "user-saved" /\ HasOutput /\ cpc' = "finished") =>
         IsAppend /\ last'.arg.role = "assistant"
    /\ cpc' = "save-failed" => C28_Stored' = C28_Stored

\* after a Session Store call raised the generator has returned
C28_FailedStep ==
  (cpc = "save-failed" /\ invokes' = invokes) =>
    /\ frames' = frames /\ cpc' = cpc /\ resp' = resp
    /\ C28_Stored' = C28_Stored

\* C28: after an error frame has been emitted the user message, and the
\* assistant message if output was collected, are still handed to the
\* Session Store; if a Session Store call then raises, no further frame is
\* emitted, the frames already emitted stay as they are and the stream ends
\* without an exception.
C28_StorageFailure == [][C28_AttemptStep /\ C28_FailedStep]_vars

\* the stream delivered text and then an error frame; the user message was
\* saved and the append of the assistant message raised
C28_Witness ==
  /\ cpc = "save-failed"
  /\ C28_ErrorDelivered
  /\ HasOutput
  /\ frames[Len(frames)] = SseDone
  /\ Len(MemMessages(req.owner, chatId)) = 1

(***************************************************************************)
(* C35  Session lost mid-stream.                                           *)
(***************************************************************************)
C35_MemGone == MemHeld(mem, req.owner, chatId) = {}

C35_PgGone == PgHeld(pgChats, req.owner, chatId) = {}

\* the step is an append of the persistence block
C35_Appends == last'.op = "append" /\ last' # last

C35_LostStep ==
  (resp = "stream" /\ cpc \in {"drained", "user-saved"} /\ cpc' \notin {cpc, "closed"}) =>
    /\ C35_MemGone => /\ mem' = mem
                      /\ C35_Appends => ~last'.memRes
    /\ C35_PgGone => /\ pgChats' = pgChats /\ pgMessages' = pgMessages
                     /\ C35_Appends => ~last'.pgRes
    /\ (C35_MemGone \/ C35_PgGone) =>
         /\ frames' = frames
         /\ cpc' \in {"user-saved", "finished", "save-failed"}

\* C35: when the session of an invocation has been removed, by delete,
\* clearAll or the eviction of a later create, before the persistence block
\* runs, both appends return false, nothing is stored, the session is not
\* created again, and the stream ends without a further frame.
C35_SessionLost == [][C35_LostStep]_vars

\* the invocation's session was evicted by two later creates of its owner;
\* the stream delivered text and [DONE], both appends returned false
C35_Witness ==
  /\ cpc = "finished" /\ HasOutput
  /\ last.op = "append" /\ last.arg.role = "assistant" /\ ~last.memRes /\ ~last.pgRes
  /\ C35_MemGone /\ C35_PgGone
  /\ Len(mem[req.owner]) = max_chats
  /\ \A c \in MemChats(req.owner) : c.messages = <<>>
  /\ pgMessages = <<>>
  /\ frames[Len(frames)] = SseDone
  /\ \A i \in 1..Len(frames) : frames[i] \notin SseError

(***************************************************************************)
(* C37  Producer/consumer termination.                                     *)
(***************************************************************************)
\* what the producer has scheduled and the consumer has not taken, oldest first
C37_Pipe == queue \o ready

C37_SentinelsAt == {i \in 1..Len(C37_Pipe) : C37_Pipe[i].msg_type \in {"done", "error"}}

C37_OneSentinel ==
  /\ Cardinality(C37_SentinelsAt) <= 1
  /\ \A i \in C37_SentinelsAt :
       /\ i = Len(C37_Pipe)
       /\ ppc = "finished"
       /\ C37_Pipe[i].msg_type = IF ended = "exhausted" THEN "done" ELSE "error"
  /\ ppc = "running" => C37_SentinelsAt = {}
  /\ (ppc = "finished" /\ cpc \in {"waiting", "forwarded"}) => Cardinality(C37_SentinelsAt) = 1
  /\ cpc \in {"error", "drained", "user-saved", "finished", "save-failed"} => C37_Pipe = <<>>

C37_DoneIsLast == \A i \in 1..Len(frames) : frames[i] = SseDone => i = Len(frames)

\* the consumer is in its loop
C37_InLoop == cpc \in {"waiting", "forwarded", "error"}

\* C37: when the inference iterator has terminated, by exhaustion or by
\* raising, the producer has enqueued exactly one terminal sentinel, behind
\* every chunk; the consumer loop then terminates, and no frame follows
\* [DONE].
C37_Termination ==
  /\ [](C37_OneSentinel /\ C37_DoneIsLast)
  /\ (ppc = "finished" ~> ~C37_InLoop)

\* the iterator raised after two items: the consumer forwarded both, the
\* error frame and [DONE], and left its loop
C37_Witness ==
  /\ ended = "raised" /\ ppc = "finished" /\ cpc = "drained"
  /\ Len(taken) = 2
  /\ Len(frames) = 5
  /\ frames[4] \in SseError /\ frames[5] = SseDone
  /\ queue = <<>> /\ ready = <<>>

(***************************************************************************)
(* C19  Pre-stream failures.  An invoke whose agent id resolves to no      *)
(* agent with an endpoint, or whose supplied chat id is held by the caller *)
(* in neither backend, returns the error response; while the response is  *)
(* the error response no frame exists, no stream runs and the stores keep  *)
(* their sessions and messages.                                            *)
(***************************************************************************)
C19_Unresolved ==
  \/ req'.agent_id # "mas-a"
  \/ /\ req'.chat_id # 0
     /\ MemHeld(mem, req'.owner, req'.chat_id) = {}
     /\ PgHeld(pgChats, req'.owner, req'.chat_id) = {}

C19_RejectStep ==
  /\ (invokes' = invokes + 1 /\ C19_Unresolved) => resp' = "error"
  /\ resp' = "error" =>
       /\ frames' = <<>>
       /\ cpc' = "idle" /\ ppc' = "idle"
       /\ mem' = mem /\ pgChats' = pgChats /\ pgMessages' = pgMessages /\ nextId' = nextId

C19_PreStreamFailures == [][C19_RejectStep]_vars

\* the second invoke named a chat that only the other owner holds
C19_Witness ==
  /\ resp = "error" /\ frames = <<>>
  /\ req.agent_id = "mas-a" /\ req.chat_id # 0
  /\ \E other \in Owners \ {req.owner} :
       /\ MemHeld(mem, other, req.chat_id) # {}
       /\ PgHeld(pgChats, other, req.chat_id) # {}


(***************************************************************************)
(* The extractor on its own: the loop body of stream_and_store folded over *)
(* a sequence of parsed events, `taken` the events so far and `collected`  *)
(* the four accumulators.                                                  *)
(***************************************************************************)
Feed(event) ==
  /\ Len(taken) < MaxFeed
  /\ taken' = Append(taken, event)
  /\ collected' = Extract(collected, event)
  /\ UNCHANGED <<req, resp, chatId, ended, ppc, ready, queue, cpc, held, frames, invokes>>
  /\ UNCHANGED <<storeVars, cacheVars, singletonVars>>

FeedEvent == \E event \in ExtractorEvents : Feed(event)

ExtractorNext == FeedEvent

(***************************************************************************)
(* The loop body of stream_and_store on its own, fed the lines a handler   *)
(* may yield: `frames` the lines forwarded so far, `held` the line just    *)
(* forwarded and not yet parsed, cpc = "drained" once the loop has ended.  *)
(***************************************************************************)
\* lines forwarded in one run
MaxFrames == 3

\* a line whose payload is not JSON text, a line that is not a data line,
\* a data line with nothing after the prefix, and a data line whose JSON
\* text is a string rather than an object
MalformedFrame == DataFrame([text |-> "{not json"])

CommentFrame == [prefix |-> ": ", body |-> [text |-> "ping"], suffix |-> "\n\n"]

EmptyFrame == DataFrame([text |-> ""])

ScalarFrame == DataFrame(JsonDumps(PlainText("abc")))

FrameInputs ==
  {ChunkFrame(EvMessage), ChunkFrame(EvCall), ChunkFrame(EvDone), DoneFrame,
   MalformedFrame, CommentFrame, EmptyFrame, ScalarFrame}

JsonDecodeErrorFatal(acc) == [acc |-> acc, raised |-> TRUE]

\* except json.JSONDecodeError: pass
JsonDecodeErrorSkipped(acc) == [acc |-> acc, raised |-> FALSE]

\* the statements after `yield chunk`: the accumulators afterwards, and
\* whether an exception left the inner try (event.get on a value that is
\* not a dict raises AttributeError, which is not a JSONDecodeError)
CollectFrame(acc, chunk) ==
  IF chunk.prefix # "data: " THEN [acc |-> acc, raised |-> FALSE]
  ELSE IF "json" \notin DOMAIN chunk.body
       THEN IF chunk.body.text \in {"", "[DONE]"}
            THEN [acc |-> acc, raised |-> FALSE]
            ELSE JsonDecodeErrorSkipped(acc)
       ELSE LET event == JsonLoads(chunk.body)
            IN  IF "kind" \in DOMAIN event
                THEN [acc |-> acc, raised |-> TRUE]
                ELSE [acc |-> Extract(acc, event), raised |-> FALSE]

\* async for chunk in stream: yield chunk
ForwardChunk(chunk) ==
  /\ cpc # "drained" /\ held = <<>>
  /\ Len(frames) < MaxFrames
  /\ frames' = Append(frames, chunk)
  /\ held' = <<chunk>>
  /\ UNCHANGED <<req, resp, chatId, taken, ended, ppc, ready, queue, cpc, collected, invokes>>
  /\ UNCHANGED <<storeVars, cacheVars, singletonVars>>

\* the generator resumes after the yield; an exception other than
\* JSONDecodeError reaches `except Exception`, which yields an error frame
\* and leaves the loop
ParseChunk ==
  /\ held # <<>>
  /\ LET got == CollectFrame(collected, held[1])
     IN  /\ collected' = got.acc
         /\ IF got.raised
            THEN /\ frames' = Append(frames, ErrorFrame("attribute"))
                 /\ cpc' = "drained"
            ELSE UNCHANGED <<frames, cpc>>
  /\ held' = <<>>
  /\ UNCHANGED <<req, resp, chatId, taken, ended, ppc, ready, queue, invokes>>
  /\ UNCHANGED <<storeVars, cacheVars, singletonVars>>

FramesNext ==
  \/ \E chunk \in FrameInputs : ForwardChunk(chunk)
  \/ ParseChunk

(***************************************************************************)
(* C16  Tool-call pairing.  A function_call item followed later by a       *)
(* function_call_output item with the same call id yields exactly one      *)
(* ToolCall with that id, with both arguments and output set; an output    *)
(* item whose call id matches no recorded ToolCall adds no ToolCall and    *)
(* leaves the recorded ToolCalls as they were, their outputs unset.        *)
(***************************************************************************)
CallIds == {"", "c1", "c2"}

ItemsAt(type) ==
  {i \in 1..Len(taken) :
     taken[i].type = "response.output_item.done" /\ taken[i].item.type = type}

ToolCallsOf(c) ==
  {k \in 1..Len(collected.function_calls) : collected.function_calls[k].call_id = c}

C16_Paired(c) ==
  \E i \in ItemsAt("function_call"), j \in ItemsAt("function_call_output") :
     i < j /\ taken[i].item.call_id = c /\ taken[j].item.call_id = c

C16_Pairing ==
  \A c \in CallIds :
     (/\ Cardinality({i \in ItemsAt("function_call") : taken[i].item.call_id = c}) = 1
      /\ C16_Paired(c))
     => /\ Cardinality(ToolCallsOf(c)) = 1
        /\ \A k \in ToolCallsOf(c) :
              /\ collected.function_calls[k].arguments.kind \in {"dict", "str"}
              /\ collected.function_calls[k].output.kind \in {"dict", "str"}

C16_Unmatched ==
  /\ Len(collected.function_calls) = Cardinality(ItemsAt("function_call"))
  /\ \A k \in 1..Len(collected.function_calls) :
        collected.function_calls[k].output.kind # "missing"
          => C16_Paired(collected.function_calls[k].call_id)

C16_UnmatchedStep ==
  \A event \in ExtractorEvents :
     (/\ taken' = Append(taken, event)
      /\ event.type = "response.output_item.done"
      /\ event.item.type = "function_call_output"
      /\ ToolCallsOf(event.item.call_id) = {})
     => collected'.function_calls = collected.function_calls

C16_ToolCallPairing == [](C16_Pairing /\ C16_Unmatched) /\ [][C16_UnmatchedStep]_vars

C16_Witness ==
  /\ taken = <<EvCall, EvOutputOther, EvOutput>>
  /\ Len(collected.function_calls) = 1
  /\ collected.function_calls[1].arguments = Object("args")
  /\ collected.function_calls[1].output = PlainText("out")


(***************************************************************************)
(* C39  Auto-title overrides earlier titles.                               *)
(***************************************************************************)
C39_MemStep ==
  \A o \in Owners :
    \A c \in {mem[o][i] : i \in 1..Len(mem[o])} :
      \A d \in {mem'[o][i] : i \in 1..Len(mem'[o])} :
        (/\ d.id = c.id
         /\ c.messages = <<>>
         /\ Len(d.messages) = 1
         /\ d.messages[1].role = "user")
        => /\ d.title = MemAutoTitle(d.messages[1].content)
           /\ d.title \notin CreateTitles \cup RenameTitles

C39_PgStep ==
  \A r \in pgChats :
    \A q \in pgChats' :
      (/\ q.id = r.id
       /\ PgMessagesOf(pgMessages, r.id) = <<>>
       /\ Len(PgMessagesOf(pgMessages', r.id)) = 1
       /\ PgMessagesOf(pgMessages', r.id)[1].role = "user")
      => /\ q.title = PgAutoTitle(PgMessagesOf(pgMessages', r.id)[1].content)
         /\ q.title \notin CreateTitles \cup RenameTitles

\* C39: in both stores the append of a user message to a session without
\* messages sets the title to the auto-title of that message, whatever the
\* title was: the one passed to create or one set by renameTitle.
C39_AutoTitleOverrides == [][C39_MemStep /\ C39_PgStep]_vars

\* one session was created, renamed and then given its first message, a
\* user message of TITLE_LEN + 1 characters: three counted calls, one id
\* handed out, and the title is the truncated content in both stores
C39_Witness ==
  /\ calls = 3 /\ nextId = 2
  /\ last.op = "append" /\ last.memRes /\ last.pgRes
  /\ \E o \in Owners :
       /\ Len(mem[o]) = 1
       /\ Len(mem[o][1].messages) = 1
       /\ mem[o][1].messages[1].role = "user"
       /\ mem[o][1].messages[1].content = Text(TITLE_LEN + 1)
       /\ mem[o][1].title = Text(TITLE_LEN) \o Ellipsis
       /\ \E r \in pgChats :
            /\ r.id = mem[o][1].id
            /\ r.title = Text(TITLE_LEN) \o Ellipsis
            /\ Len(PgMessagesOf(pgMessages, r.id)) = 1


(***************************************************************************)
(* C38  Out-of-order and duplicate call ids.                               *)
(***************************************************************************)
\* the position in the stream of the function_call item that ToolCall k
\* was recorded from
C38_RecordedAt(k) ==
  CHOOSE i \in ItemsAt("function_call") :
     Cardinality({j \in ItemsAt("function_call") : j <= i}) = k

\* the function_call_output items with the call id of ToolCall k that
\* arrived after it was recorded
C38_OutputsAfter(k) ==
  {j \in ItemsAt("function_call_output") :
     /\ j > C38_RecordedAt(k)
     /\ taken[j].item.call_id = collected.function_calls[k].call_id}

C38_Earliest(k) == \A e \in ToolCallsOf(collected.function_calls[k].call_id) : k <= e

\* C38: an output item attaches its output only to the earliest recorded
\* ToolCall with its call id among those recorded so far; an output that
\* arrives before the function_call with its call id is dropped and is not
\* attached when that call arrives; a later ToolCall with a duplicate call
\* id never receives an output.
C38_CallIds ==
  \A k \in 1..Len(collected.function_calls) :
     LET fc == collected.function_calls[k]
         after == C38_OutputsAfter(k)
     IN  IF C38_Earliest(k) /\ after # {}
         THEN fc.output =
                ParseJsonField(GetOrEmpty(taken[CHOOSE j \in after : \A l \in after : j >= l].item.output))
         ELSE fc.output = Missing

\* an output for c1 ahead of its call, the call twice, the output again:
\* the first ToolCall holds the output, the duplicate none
C38_Witness ==
  /\ taken = <<EvOutput, EvCall, EvCall, EvOutput>>
  /\ Len(collected.function_calls) = 2
  /\ collected.function_calls[1].output = PlainText("out")
  /\ collected.function_calls[2].output = Missing
  /\ collected.function_calls[2].call_id = collected.function_calls[1].call_id


(***************************************************************************)
(* C32  Last message wins.                                                 *)
(***************************************************************************)
\* the output_text blocks of the message item at position i of the stream
C32_TextBlocks(i) == SelectSeq(taken[i].item.content, LAMBDA b : b.type = "output_text")

C32_Last(S) == CHOOSE i \in S : \A j \in S : i >= j

\* C32: after any event stream the final text is the first output_text
\* block of the last message item of the stream; every message item
\* overwrites what earlier message items set.
C32_LastMessageWins ==
  ItemsAt("message") # {} =>
    LET blocks == C32_TextBlocks(C32_Last(ItemsAt("message")))
    IN  collected.final_text = IF blocks = <<>> THEN <<>> ELSE blocks[1].text

\* what holds: the final text is the first output_text block of the last
\* message item that has such a block, and empty when no item has one
C32_LastTextWins ==
  LET texts == {i \in ItemsAt("message") : C32_TextBlocks(i) # <<>>}
  IN  collected.final_text =
        IF texts = {} THEN <<>> ELSE C32_TextBlocks(C32_Last(texts))[1].text

\* a message with text, a message whose first text block comes second, and
\* a message without text: the second one's first text block is the result
C32_Witness ==
  /\ taken = <<EvMessage, EvMessageOther, EvMessageNoText>>
  /\ collected.final_text = <<"y", "o">>


(***************************************************************************)
(* C33  Malformed events are skipped.                                      *)
(***************************************************************************)
\* a data line whose payload is not JSON text
C33_Malformed(chunk) ==
  /\ chunk.prefix = "data: "
  /\ "json" \notin DOMAIN chunk.body
  /\ chunk.body.text \notin {"", "[DONE]"}

C33_ForwardStep ==
  \A chunk \in FrameInputs :
     (held = <<>> /\ held' = <<chunk>>) => frames' = Append(frames, chunk)

C33_SkipStep ==
  (held # <<>> /\ held' = <<>> /\ C33_Malformed(held[1])) =>
    /\ collected' = collected
    /\ frames' = frames
    /\ cpc' = cpc /\ cpc' # "drained"

\* C33: a data frame whose payload is not parseable JSON is forwarded to
\* the caller like any other, leaves final text, tool calls and trace id
\* as they were, produces no error frame and leaves the loop running for
\* the frames that follow.
C33_MalformedSkipped == [][C33_ForwardStep /\ C33_SkipStep]_vars

\* a malformed frame was forwarded between two message frames, and the
\* frame after it was collected
C33_Witness ==
  /\ frames = <<ChunkFrame(EvCall), MalformedFrame, ChunkFrame(EvMessage)>>
  /\ held = <<>>
  /\ collected.final_text = <<"h", "i">>
  /\ Len(collected.function_calls) = 1


(***************************************************************************)
(* C17  Trace id latch.  Once a trace id has been recorded, from the       *)
(* event-level databricks_output, the item-level one or the response.done  *)
(* payload, no later event changes it: the recorded trace id is the first  *)
(* one that occurs at those locations in the events so far.                *)
(***************************************************************************)
C17_Locations(event) ==
  <<event.db>>
    \o (IF event.type = "response.output_item.done" THEN <<event.item.db>> ELSE <<>>)
    \o (IF event.type = "response.done" THEN <<event.response_db>> ELSE <<>>)

C17_TraceIdsIn(event) ==
  SelectSeq(C17_Locations(event), LAMBDA db : db \in {"t1", "t2", "t3"})

C17_FirstSeen ==
  LET carriers == {i \in 1..Len(taken) : C17_TraceIdsIn(taken[i]) # <<>>}
  IN  IF carriers = {}
      THEN ""
      ELSE Head(C17_TraceIdsIn(taken[CHOOSE i \in carriers : \A j \in carriers : i <= j]))

C17_LatchStep == collected.trace_id # "" => collected'.trace_id = collected.trace_id

C17_TraceIdLatch == [](collected.trace_id = C17_FirstSeen) /\ [][C17_LatchStep]_vars

C17_Witness ==
  /\ taken = <<EvNoTrace, EvDone, EvDoneBoth>>
  /\ collected.trace_id = "t2"
  /\ collected.databricks_output = "t2"


(***************************************************************************)
(* Specifications                                                          *)
(***************************************************************************)
\* the state after construction of the three components
(***************************************************************************)
(* The global storage instance (services/chat/__init__.py) and the proxy   *)
(* the routers use (chat_storage.py).  An instance of the in-memory kind   *)
(* holds its sessions itself; every instance of the PostgreSQL kind reads  *)
(* and writes the one database.                                            *)
(***************************************************************************)
MaxInstances == 3
MaxSessions == 2

SingletonInit ==
  /\ storage = 0
  /\ initialized = FALSE
  /\ instances = <<>>
  /\ database = {}
  /\ handles = {}
  /\ ipc = "idle"

\* MemoryUserScopedChatStorage(..) / PostgresUserScopedChatStorage(..)
NewInstance(kind) == [kind |-> kind, sessions |-> {}]

\* the sessions an instance shows
Visible(h) == IF instances[h].kind = "memory" THEN instances[h].sessions ELSE database

\* _storage = <a new object>; return _storage
Construct(kind) ==
  /\ Len(instances) < MaxInstances
  /\ instances' = Append(instances, NewInstance(kind))
  /\ storage' = Len(instances) + 1
  /\ handles' = handles \cup {Len(instances) + 1}

\* init_storage() up to its return or to `await create_tables()`;
\* configured is is_postgres_configured(), raises whether init_database()
\* raises
InitStorage(configured, raises) ==
  /\ ipc = "idle"
  /\ IF initialized /\ storage # 0
     THEN /\ handles' = handles \cup {storage}
          /\ UNCHANGED <<storage, initialized, instances, ipc>>
     ELSE IF configured /\ ~raises
     THEN /\ ipc' = "creating"
          /\ UNCHANGED <<storage, initialized, instances, handles>>
     ELSE /\ Construct("memory")
          /\ initialized' = TRUE
          /\ UNCHANGED ipc
  /\ UNCHANGED database
  /\ UNCHANGED <<storeVars, cacheVars, bridgeVars>>

\* create_tables() returns or raises, and init_storage() runs to its return
InitStorageResume(raises) ==
  /\ ipc = "creating"
  /\ Construct(IF raises THEN "memory" ELSE "postgres")
  /\ initialized' = TRUE
  /\ ipc' = "idle"
  /\ UNCHANGED database
  /\ UNCHANGED <<storeVars, cacheVars, bridgeVars>>

\* get_storage(), also reached through every attribute of the proxy
GetStorageCall ==
  /\ IF storage = 0
     THEN Construct("memory")
     ELSE /\ handles' = handles \cup {storage}
          /\ UNCHANGED <<storage, instances>>
  /\ UNCHANGED <<initialized, database, ipc>>
  /\ UNCHANGED <<storeVars, cacheVars, bridgeVars>>

ResetStorage ==
  /\ storage' = 0
  /\ initialized' = FALSE
  /\ handles' = {}
  /\ UNCHANGED <<instances, database, ipc>>
  /\ UNCHANGED <<storeVars, cacheVars, bridgeVars>>

AllSessions == database \cup UNION {instances[h].sessions : h \in 1..Len(instances)}

\* a session is stored through a handle returned earlier
StoreThrough(h) ==
  /\ Cardinality(AllSessions) < MaxSessions
  /\ LET id == Cardinality(AllSessions) + 1
     IN  IF instances[h].kind = "memory"
         THEN /\ instances' = [instances EXCEPT ![h].sessions = @ \cup {id}]
              /\ UNCHANGED database
         ELSE /\ database' = database \cup {id}
              /\ UNCHANGED instances
  /\ UNCHANGED <<storage, initialized, handles, ipc>>
  /\ UNCHANGED <<storeVars, cacheVars, bridgeVars>>

SingletonNext ==
  \/ \E configured \in BOOLEAN, raises \in BOOLEAN : InitStorage(configured, raises)
  \/ \E raises \in BOOLEAN : InitStorageResume(raises)
  \/ GetStorageCall
  \/ ResetStorage
  \/ \E h \in handles : StoreThrough(h)

Init == StoreInit /\ CacheInit /\ BridgeInit /\ SingletonInit

SpecStore == Init /\ [][StoreNext]_vars

SpecStamped == Init /\ [][StampedNext]_vars

SpecCache == Init /\ [][CacheNext]_vars

SpecLock == Init /\ [][LockNext]_vars

SpecFetch == Init /\ [][FetchNext]_vars

\* with the scheduling the threads and the event loop give: a started
\* thread runs, a fetch ends, a lock body is left
LiveLock == Init /\ [][LockNext]_vars /\ WF_vars(RefresherStep) /\ WF_vars(CallerBodyStep)

SpecBridge == Init /\ [][BridgeNext]_vars

\* the event loop runs every callback it was handed and resumes the
\* generator whenever the awaited queue has an item or a yield was taken
LiveStream ==
  /\ Init /\ [][StreamNext]_vars
  /\ WF_vars(RunCallback) /\ WF_vars(QueueGet) /\ WF_vars(CollectChunk)
  /\ WF_vars(EmitDoneAfterError)

SpecLost == Init /\ [][LostNext]_vars

SpecPgCreate == Init /\ [][PgCreateNext]_vars

SpecPgAppend == Init /\ [][PgAppendNext]_vars

SpecExtractor == Init /\ [][ExtractorNext]_vars

SpecSingleton == Init /\ [][SingletonNext]_vars

SpecFrames == Init /\ [][FramesNext]_vars

====
